---- MODULE Spec2Model ----
(***************************************************************************)
(* Model of the SSRF-resistant image URL validator of MD2slide             *)
(* (packages/backend/src/security/imageUrlValidator.ts).                   *)
(*                                                                         *)
(* Text is modelled as a sequence of tokens.  Inside IP addresses a token  *)
(* is one character ("1", ".", ":", "f"); inside host names a token is one *)
(* DNS label ("example") or the separating dot.                            *)
(***************************************************************************)
EXTENDS Integers, Sequences, FiniteSets, TLC

VARIABLES
    addr,       \* AddrSpec: the text handed to the address classifier
    apc,        \* AddrSpec: "ready" before the classifier ran, "done" after
    aBlocked,   \* AddrSpec: the classifier's answer
    net,        \* the network: what the HEAD probe of each URL answers
    input,      \* the argument of validateImageUrl
    pc,         \* where the validateImageUrl call stands
    urlString,  \* followAndValidateRedirects: the URL of the current hop
    redirectCount,  \* followAndValidateRedirects: the hop index
    visitedUrls,    \* followAndValidateRedirects: the visited set
    verdict,    \* the ImageValidationResult returned, once pc = "done"
    log,        \* the calls made so far: validations, lookups, probes
    bUrls,      \* BatchSpec: the argument of validateImageUrls
    bCalls,     \* BatchSpec: where each validateImageUrl call of the batch stands
    bVisited,   \* BatchSpec: the visited sets the calls have created
    bResult,    \* BatchSpec: the array Promise.all resolves with
    bpc,        \* BatchSpec: "running" until Promise.all has resolved
    jobs,       \* InMemoryQueue.jobs: the job records, indexed by job id
    queue,      \* InMemoryQueue.queue: the ids waiting, oldest first
    returned,   \* what the getNext calls returned so far (0 for null)
    isRunning,  \* JobProcessor.isRunning
    isProcessing,   \* JobProcessor.isProcessing
    pollTimer,  \* JobProcessor.pollTimer (0 for undefined)
    timers,     \* the poll timers that are armed
    acts,       \* the poll callbacks that are inside processNextJob
    jlog,       \* what the processor did to each job, in order
    doc,        \* ExtractSpec: the pieces the Markdown text was written from
    markdown,   \* ExtractSpec: the argument of extractImageURLs
    imageUrls,  \* ExtractSpec: the array extractImageURLs returned
    xpc,        \* ExtractSpec: "ready" before the call, "done" after
    storage,    \* TokenManager: the StoredTokens in the storage (NoTokens for null)
    refreshPromise, \* TokenManager.refreshPromise (0 for null)
    requests,   \* TokenManager: the token-endpoint requests in flight
    issued,     \* TokenManager: how many requests were sent so far
    authState,  \* TokenManager: the last value given to the auth state callbacks
    loggedOut,  \* TokenManager: clearTokens was called and no login followed
    content,    \* useAutoSave: content
    saveStatus, \* useAutoSave: saveStatus
    lastSavedContent, \* useAutoSave: lastSavedContentRef.current
    debounceTimer, \* useAutoSave: debounceTimerRef.current
    pending,    \* useAutoSave: the timers that are armed
    now,        \* useAutoSave: the time
    saves,      \* useAutoSave: the saveMarkdown calls made
    lastCall,   \* useAutoSave: the last setContent call
    stateMarkdown, \* editor store: state.markdown
    past,       \* createHistoryStore: let past
    future,     \* createHistoryStore: let future
    propPast,   \* createHistoryStore: the property past of the object returned
    propFuture, \* createHistoryStore: the property future of the object returned
    elapsed,    \* createHistoryStore: HISTORY_DEBOUNCE_DELAY has passed since lastPushTime
    lastOp      \* editor store: the last call and what it found

addrVars == <<addr, apc, aBlocked>>
chainVars == <<net, input, pc, urlString, redirectCount, visitedUrls, verdict, log>>
batchVars == <<bUrls, bCalls, bVisited, bResult, bpc>>
queueVars == <<jobs, queue, returned>>
workerVars == <<isRunning, isProcessing, pollTimer, timers, acts, jlog>>
extractVars == <<doc, markdown, imageUrls, xpc>>
tokVars == <<storage, refreshPromise, requests, issued, authState, loggedOut>>
saveVars == <<content, saveStatus, lastSavedContent, debounceTimer, pending, now, saves,
             lastCall>>
edVars == <<stateMarkdown, past, future, propPast, propFuture, elapsed, lastOp>>
frontVars == <<tokVars, saveVars, edVars>>
appVars == <<queueVars, workerVars, extractVars, frontVars>>
backVars == <<addrVars, chainVars, batchVars, queueVars, workerVars, extractVars>>
vars == <<addrVars, chainVars, batchVars, appVars>>

----------------------------------------------------------------------------
(* Text helpers: the JavaScript string operations the validator uses.      *)

DigitChars == <<"0", "1", "2", "3", "4", "5", "6", "7", "8", "9">>
HexLower == <<"0", "1", "2", "3", "4", "5", "6", "7", "8", "9",
              "a", "b", "c", "d", "e", "f">>
HexUpper == <<"0", "1", "2", "3", "4", "5", "6", "7", "8", "9",
              "A", "B", "C", "D", "E", "F">>

Range(s) == {s[i] : i \in 1..Len(s)}

IsDigit(c) == c \in Range(DigitChars)
IsHex(c) == c \in Range(HexLower) \cup Range(HexUpper)

DigitVal(c) == (CHOOSE i \in 1..10 : DigitChars[i] = c) - 1

\* String.prototype.toLowerCase, token by token
LowerChar(c) ==
    IF c \in Range(HexUpper) THEN HexLower[CHOOSE i \in 1..16 : HexUpper[i] = c]
    ELSE c

toLowerCase(s) == [i \in 1..Len(s) |-> LowerChar(s[i])]

\* String.prototype.startsWith
startsWith(s, p) == Len(s) >= Len(p) /\ SubSeq(s, 1, Len(p)) = p

\* String.prototype.endsWith
endsWith(s, p) == Len(s) >= Len(p) /\ SubSeq(s, Len(s) - Len(p) + 1, Len(s)) = p

\* String.prototype.includes
includes(s, p) ==
    \E i \in 1..(Len(s) - Len(p) + 1) : SubSeq(s, i, i + Len(p) - 1) = p

\* String.prototype.split with a one-character separator
RECURSIVE SplitFrom(_, _, _, _)
SplitFrom(s, sep, i, cur) ==
    IF i > Len(s) THEN <<cur>>
    ELSE IF s[i] = sep THEN <<cur>> \o SplitFrom(s, sep, i + 1, <<>>)
    ELSE SplitFrom(s, sep, i + 1, Append(cur, s[i]))

split(s, sep) == SplitFrom(s, sep, 1, <<>>)

\* Array.prototype.join
RECURSIVE join(_, _)
join(parts, sep) ==
    IF parts = <<>> THEN <<>>
    ELSE IF Len(parts) = 1 THEN parts[1]
    ELSE parts[1] \o <<sep>> \o join(Tail(parts), sep)

\* Decimal text of a natural number (how an octet is written)
RECURSIVE Dec(_)
Dec(n) == IF n < 10 THEN <<DigitChars[n + 1]>>
          ELSE Append(Dec(n \div 10), DigitChars[(n % 10) + 1])

\* Hexadecimal text of a natural number, lower case, no leading zeros
\* (how an IPv6 group is written)
RECURSIVE Hex(_)
Hex(n) == IF n < 16 THEN <<HexLower[n + 1]>>
          ELSE Append(Hex(n \div 16), HexLower[(n % 16) + 1])

\* Dotted text of a tuple of numbers: <<127,0,0,1>> is "127.0.0.1"
Dotted(q) == join([i \in 1..Len(q) |-> Dec(q[i])], ".")

----------------------------------------------------------------------------
(* JavaScript numbers.  parseInt yields NaN or an integer; "<<" works on   *)
(* signed 32-bit integers; "+" and the comparisons are exact.  A sum that  *)
(* may leave the 32-bit range is kept as <<high, low>> with                *)
(* value = high * 65536 + low and low in 0..65535.                         *)

NaN == [nan |-> TRUE, n |-> 0]
Num(n) == [nan |-> FALSE, n |-> n]

IsWhite(c) == c = " "

RECURSIVE DigitsValue(_, _, _)
\* value of the maximal digit prefix of s from position i, acc so far
DigitsValue(s, i, acc) ==
    IF i <= Len(s) /\ IsDigit(s[i])
    THEN DigitsValue(s, i + 1, acc * 10 + DigitVal(s[i]))
    ELSE acc

RECURSIVE SkipWhite(_, _)
SkipWhite(s, i) == IF i <= Len(s) /\ IsWhite(s[i]) THEN SkipWhite(s, i + 1) ELSE i

\* parseInt(p, 10): leading white space, an optional sign, then the longest
\* prefix of digits; NaN when there is no digit.  What follows is ignored.
parseInt(p) ==
    LET i0 == SkipWhite(p, 1)
        signed == i0 <= Len(p) /\ p[i0] \in {"-", "+"}
        i1 == IF signed THEN i0 + 1 ELSE i0
        v == DigitsValue(p, i1, 0)
    IN  IF ~(i1 <= Len(p) /\ IsDigit(p[i1])) THEN NaN
        ELSE IF signed /\ p[i0] = "-" THEN Num(0 - v)
        ELSE Num(v)

\* x << n on a JavaScript number holding an integer: ToInt32, shift left,
\* the result read as a signed 32-bit integer
Shl(x, n) ==
    LET m == 2 ^ (32 - n)
        low == x % m
    IN  IF low >= m \div 2 THEN (low - m) * (2 ^ n) ELSE low * (2 ^ n)

Wide(v) == <<v \div 65536, v % 65536>>

WAdd(a, b) ==
    LET l == a[2] + b[2]
    IN  <<a[1] + b[1] + (l \div 65536), l % 65536>>

WNeg(a) == a[1] < 0
WLeq(a, b) == a[1] < b[1] \/ (a[1] = b[1] /\ a[2] <= b[2])

----------------------------------------------------------------------------
(* AddressClassifier: ipToNumber, isBlockedIP, isBlockedIPv6.              *)

\* The blocked table, each range as its two dotted quads
BlockedQuads == <<
    <<<<127, 0, 0, 0>>,     <<127, 255, 255, 255>>>>,   \* loopback
    <<<<10, 0, 0, 0>>,      <<10, 255, 255, 255>>>>,    \* private
    <<<<172, 16, 0, 0>>,    <<172, 31, 255, 255>>>>,    \* private
    <<<<192, 168, 0, 0>>,   <<192, 168, 255, 255>>>>,   \* private
    <<<<169, 254, 0, 0>>,   <<169, 254, 255, 255>>>>,   \* link-local
    <<<<169, 254, 169, 254>>, <<169, 254, 169, 254>>>>, \* cloud metadata
    <<<<0, 0, 0, 0>>,       <<0, 255, 255, 255>>>>,     \* "this" network
    <<<<100, 64, 0, 0>>,    <<100, 127, 255, 255>>>>,   \* carrier-grade NAT
    <<<<192, 0, 0, 0>>,     <<192, 0, 0, 255>>>>,       \* IANA special
    <<<<192, 0, 2, 0>>,     <<192, 0, 2, 255>>>>,       \* TEST-NET-1
    <<<<198, 51, 100, 0>>,  <<198, 51, 100, 255>>>>,    \* TEST-NET-2
    <<<<203, 0, 113, 0>>,   <<203, 0, 113, 255>>>>,     \* TEST-NET-3
    <<<<198, 18, 0, 0>>,    <<198, 19, 255, 255>>>>,    \* benchmark
    <<<<224, 0, 0, 0>>,     <<239, 255, 255, 255>>>>,   \* multicast
    <<<<240, 0, 0, 0>>,     <<255, 255, 255, 255>>>> >> \* reserved

\* BLOCKED_IP_RANGES: the table as the code holds it, start and end as text
BLOCKED_IP_RANGES ==
    [i \in 1..Len(BlockedQuads) |->
        [start |-> Dotted(BlockedQuads[i][1]), end |-> Dotted(BlockedQuads[i][2])]]

\* ipToNumber: split on ".", parseInt every part, -1 unless there are four
\* parts none of which is NaN, else (p0 << 24) + (p1 << 16) + (p2 << 8) + p3
ipToNumber(ip) ==
    LET texts == split(ip, ".")
        parts == [i \in 1..Len(texts) |-> parseInt(texts[i])]
    IN  IF Len(parts) # 4 \/ (\E i \in 1..Len(parts) : parts[i].nan)
        THEN Wide(0 - 1)
        ELSE WAdd(WAdd(WAdd(Wide(Shl(parts[1].n, 24)), Wide(Shl(parts[2].n, 16))),
                       Wide(Shl(parts[3].n, 8))),
                  Wide(parts[4].n))

\* startNum and endNum of every range: ipToNumber(range.start) and
\* ipToNumber(range.end), which isBlockedIP computes inside its loop
RangeNums ==
    [i \in 1..Len(BLOCKED_IP_RANGES) |->
        [startNum |-> ipToNumber(BLOCKED_IP_RANGES[i].start),
         endNum |-> ipToNumber(BLOCKED_IP_RANGES[i].end)]]

\* isBlockedIP with the lower end of each range left out (ipNum > startNum)
isBlockedIP_OpenStart(ip) ==
    LET ipNum == ipToNumber(ip)
    IN  IF WNeg(ipNum) THEN TRUE
        ELSE \E i \in 1..Len(RangeNums) :
                /\ ~WLeq(ipNum, RangeNums[i].startNum)
                /\ WLeq(ipNum, RangeNums[i].endNum)

\* isBlockedIP: a negative number is blocked, else membership in a range
\* (ipNum >= startNum && ipNum <= endNum)
isBlockedIP(ip) ==
    LET ipNum == ipToNumber(ip)
    IN  IF WNeg(ipNum) THEN TRUE
        ELSE \E i \in 1..Len(RangeNums) :
                /\ WLeq(RangeNums[i].startNum, ipNum)
                /\ WLeq(ipNum, RangeNums[i].endNum)

\* \d{1,3}\.\d{1,3}\.\d{1,3}\.\d{1,3} matched against the whole of t
IsQuadShape(t) ==
    LET ps == split(t, ".")
    IN  /\ Len(ps) = 4
        /\ \A i \in 1..4 : /\ Len(ps[i]) \in 1..3
                           /\ \A j \in 1..Len(ps[i]) : IsDigit(ps[i][j])

MappedPrefix == <<":", "f", "f", "f", "f", ":">>

\* ip.match(/:ffff:(\d{1,3}\.\d{1,3}\.\d{1,3}\.\d{1,3})$/): the positions
\* where ":ffff:" is followed by a dotted quad that ends the text
MappedMatches(ip) ==
    {i \in 1..Len(ip) :
        /\ i + 5 <= Len(ip)
        /\ SubSeq(ip, i, i + 5) = MappedPrefix
        /\ IsQuadShape(SubSeq(ip, i + 6, Len(ip)))}

\* isBlockedIPv6 with the link-local test reduced to the prefix "fe80:"
isBlockedIPv6_Fe80Only(ip) ==
    LET n == toLowerCase(ip)
    IN  \/ n = <<":", ":", "1">>
        \/ n = join(<<<<"0">>, <<"0">>, <<"0">>, <<"0">>, <<"0">>, <<"0">>, <<"0">>, <<"1">>>>, ":")
        \/ n = <<":", ":">>
        \/ n = join(<<<<"0">>, <<"0">>, <<"0">>, <<"0">>, <<"0">>, <<"0">>, <<"0">>, <<"0">>>>, ":")
        \/ startsWith(n, <<"f", "e", "8", "0", ":">>)
        \/ startsWith(n, <<"f", "c">>) \/ startsWith(n, <<"f", "d">>)
        \/ startsWith(n, <<"f", "f">>)
        \/ /\ includes(n, MappedPrefix)
           /\ \E i \in MappedMatches(n) : isBlockedIP(SubSeq(n, i + 6, Len(n)))

\* isBlockedIPv6: tests on the lower-cased text
isBlockedIPv6(ip) ==
    LET n == toLowerCase(ip)
    IN  \/ n = <<":", ":", "1">>
        \/ n = join(<<<<"0">>, <<"0">>, <<"0">>, <<"0">>, <<"0">>, <<"0">>, <<"0">>, <<"1">>>>, ":")
        \/ n = <<":", ":">>
        \/ n = join(<<<<"0">>, <<"0">>, <<"0">>, <<"0">>, <<"0">>, <<"0">>, <<"0">>, <<"0">>>>, ":")
        \/ startsWith(n, <<"f", "e", "8", "0", ":">>)
        \/ startsWith(n, <<"f", "e", "8">>) \/ startsWith(n, <<"f", "e", "9">>)
        \/ startsWith(n, <<"f", "e", "a">>) \/ startsWith(n, <<"f", "e", "b">>)
        \/ startsWith(n, <<"f", "c">>) \/ startsWith(n, <<"f", "d">>)
        \/ startsWith(n, <<"f", "f">>)
        \/ /\ includes(n, MappedPrefix)
           /\ \E i \in MappedMatches(n) : isBlockedIP(SubSeq(n, i + 6, Len(n)))

\* The dispatch of validateSingleUrl on one address: ip.includes(':') picks
\* isBlockedIPv6, anything else goes to isBlockedIP
ClassifyAddress(ip) ==
    IF includes(ip, <<":">>) THEN isBlockedIPv6(ip) ELSE isBlockedIP(ip)

----------------------------------------------------------------------------
(* HostnameClassifier and the IP-literal test.  A host name is a sequence  *)
(* of labels and dots, already in lower case as the URL parser leaves it.  *)

\* BLOCKED_HOSTNAME_PATTERNS: /^x$/i is exact, /\.x$/i is a suffix
BLOCKED_HOSTNAME_PATTERNS == <<
    [exact |-> TRUE,  toks |-> <<"localhost">>],
    [exact |-> FALSE, toks |-> <<".", "local">>],
    [exact |-> FALSE, toks |-> <<".", "internal">>],
    [exact |-> FALSE, toks |-> <<".", "localdomain">>],
    [exact |-> FALSE, toks |-> <<".", "localhost">>],
    [exact |-> TRUE,  toks |-> <<"local">>],
    [exact |-> TRUE,  toks |-> <<"host">>],
    [exact |-> FALSE, toks |-> <<".", "home">>],
    [exact |-> FALSE, toks |-> <<".", "lan">>],
    [exact |-> FALSE, toks |-> <<".", "intranet">>],
    [exact |-> FALSE, toks |-> <<".", "corp">>],
    [exact |-> FALSE, toks |-> <<".", "private">>],
    [exact |-> TRUE,  toks |-> <<"ip6-localhost">>],
    [exact |-> TRUE,  toks |-> <<"ip6-loopback">>],
    [exact |-> FALSE, toks |-> <<".", "ip6", ".", "allhosts">>],
    [exact |-> FALSE, toks |-> <<".", "ip6", ".", "allnodes">>],
    [exact |-> FALSE, toks |-> <<".", "ip6", ".", "allrouters">>],
    [exact |-> FALSE, toks |-> <<".", "ip6", ".", "local">>],
    [exact |-> FALSE, toks |-> <<".", "kubernetes", ".", "default">>],
    [exact |-> FALSE, toks |-> <<".", "kubernetes", ".", "default", ".", "svc">>],
    [exact |-> FALSE, toks |-> <<".", "svc", ".", "cluster", ".", "local">>],
    [exact |-> FALSE, toks |-> <<".", "docker", ".", "internal">>],
    [exact |-> FALSE, toks |-> <<".", "metadata">>],
    [exact |-> FALSE, toks |-> <<".", "metadata", ".", "google">>],
    [exact |-> FALSE, toks |-> <<".", "metadata", ".", "google", ".", "internal">>] >>

\* isBlockedHostname: some pattern matches the lower-cased host name
isBlockedHostname(hostname) ==
    LET n == toLowerCase(hostname)
    IN  \E i \in 1..Len(BLOCKED_HOSTNAME_PATTERNS) :
            IF BLOCKED_HOSTNAME_PATTERNS[i].exact
            THEN n = BLOCKED_HOSTNAME_PATTERNS[i].toks
            ELSE endsWith(n, BLOCKED_HOSTNAME_PATTERNS[i].toks)

\* isIPAddress: the IPv4 pattern with every part in 0..255, or one of the
\* two IPv6 patterns
isIPAddress(str) ==
    IF IsQuadShape(str)
    THEN \A i \in 1..4 : LET v == parseInt(split(str, ".")[i]).n
                         IN  v >= 0 /\ v <= 255
    ELSE \* /^([0-9a-fA-F]{0,4}:){2,7}[0-9a-fA-F]{0,4}$/
         \/ LET gs == split(str, ":")
            IN  /\ Len(gs) - 1 \in 2..7
                /\ \A i \in 1..Len(gs) :
                      /\ Len(gs[i]) <= 4
                      /\ \A j \in 1..Len(gs[i]) : IsHex(gs[i][j])
         \* /^::$|^::[0-9a-fA-F:]+$|^[0-9a-fA-F:]+::$|^[0-9a-fA-F:]+::[0-9a-fA-F:]+$/
         \/ /\ \A i \in 1..Len(str) : IsHex(str[i]) \/ str[i] = ":"
            /\ includes(str, <<":", ":">>)

----------------------------------------------------------------------------
(* The URLs and the network.  A URL is a record: its kind names what the   *)
(* validator can see in it, n tells the good URLs apart, raw says that the *)
(* text is not in the form URL.href gives (the user may type such a text;  *)
(* a redirect target is always an href).                                   *)

MAX_REDIRECTS == 3
MAX_URL_LENGTH == 2048

\* Longest chain of redirects the network holds
MaxChain == 5

Good(i) == [kind |-> "good", n |-> i, raw |-> FALSE]
Special(k) == [kind |-> k, n |-> 0, raw |-> FALSE]
NoUrl == Special("none")
Raw(u) == [u EXCEPT !.raw = TRUE]

\* new URL(location, base).href: the normalised text of a URL
Href(u) == [u EXCEPT !.raw = FALSE]

\* Kinds of URL a server can redirect to, besides the good ones
SpecialKinds == {"http", "localhost", "internalHost", "private4", "public4",
                 "bracket6", "nxdomain", "mixedLast", "mixedFirst", "mixedV6",
                 "dualOk", "long", "ftp", "longHttp", "httpLocalhost",
                 "httpPrivate4", "longLocalhost", "dotLocal", "cluster",
                 "docker", "bracket6pub"}

\* Kinds whose text is longer than MAX_URL_LENGTH once normalised, kinds
\* with the scheme http, kinds with the host name localhost
LongKinds == {"long", "longHttp", "longLocalhost", "longUnparsable"}
HttpKinds == {"http", "longHttp", "httpLocalhost", "httpPrivate4"}
LocalhostKinds == {"localhost", "httpLocalhost", "longLocalhost"}

\* urlString.length: the href is one character longer than the raw text
\* (the "/" the parser adds); the long URL is 2048 characters raw
UrlLength(u) ==
    (IF u.kind = "longUnparsable" THEN MAX_URL_LENGTH + 1
     ELSE IF u.kind \in LongKinds THEN MAX_URL_LENGTH ELSE 40)
    + (IF u.raw THEN 0 ELSE 1)

\* new URL(urlString) succeeds
Parses(u) == u.kind \notin {"unparsable", "longUnparsable"}

\* parsedUrl.protocol
Protocol(u) ==
    IF u.kind \in HttpKinds THEN "http:"
    ELSE IF u.kind = "ftp" THEN "ftp:" ELSE "https:"

\* parsedUrl.hostname (an IPv6 literal keeps its brackets)
HostnameOf(u) ==
    CASE u.kind = "good" -> <<"img">> \o Dec(u.n) \o <<".", "example">>
      [] u.kind \in LocalhostKinds -> <<"localhost">>
      [] u.kind = "internalHost" -> <<"db", ".", "internal">>
      [] u.kind = "dotLocal" -> <<"printer", ".", "local">>
      [] u.kind = "cluster" -> <<"api", ".", "svc", ".", "cluster", ".", "local">>
      [] u.kind = "docker" -> <<"host", ".", "docker", ".", "internal">>
      [] u.kind \in {"private4", "httpPrivate4"} -> Dotted(<<10, 0, 0, 1>>)
      [] u.kind = "public4" -> Dotted(<<8, 8, 8, 8>>)
      [] u.kind = "bracket6" -> <<"[", ":", ":", "1", "]">>
      [] u.kind = "bracket6pub" ->
            <<"[", "2", "0", "0", "1", ":", "4", "8", "6", "0", ":", ":",
              "8", "8", "8", "8", "]">>
      [] OTHER -> <<u.kind, ".", "example">>

\* resolveHostname: what dns.lookup(hostname, {all: true}) answers; ok is
\* FALSE when the lookup throws
resolveHostname(hostname) ==
    CASE hostname = <<"nxdomain", ".", "example">> -> [ok |-> FALSE, ips |-> <<>>]
      [] hostname = <<"[", ":", ":", "1", "]">> -> [ok |-> FALSE, ips |-> <<>>]
      [] hostname = <<"[", "2", "0", "0", "1", ":", "4", "8", "6", "0", ":", ":",
                      "8", "8", "8", "8", "]">> -> [ok |-> FALSE, ips |-> <<>>]
      [] hostname = <<"host", ".", "docker", ".", "internal">> ->
            [ok |-> FALSE, ips |-> <<>>]
      [] hostname = <<"printer", ".", "local">> ->
            [ok |-> TRUE, ips |-> <<Dotted(<<192, 168, 1, 20>>)>>]
      [] hostname = <<"mixedLast", ".", "example">> ->
            [ok |-> TRUE, ips |-> <<Dotted(<<8, 8, 8, 8>>), Dotted(<<10, 0, 0, 1>>)>>]
      [] hostname = <<"mixedFirst", ".", "example">> ->
            [ok |-> TRUE, ips |-> <<Dotted(<<10, 0, 0, 1>>), Dotted(<<8, 8, 8, 8>>)>>]
      [] hostname = <<"mixedV6", ".", "example">> ->
            [ok |-> TRUE, ips |-> <<Dotted(<<8, 8, 8, 8>>),
                                    <<"f", "e", "8", "0", ":", ":", "1">>>>]
      [] hostname = <<"dualOk", ".", "example">> ->
            [ok |-> TRUE, ips |-> <<Dotted(<<8, 8, 8, 8>>),
                                    <<"2", "0", "0", "1", ":", "4", "8", "6", "0",
                                      ":", ":", "8", "8", "8", "8">>>>]
      [] OTHER -> [ok |-> TRUE, ips |-> <<Dotted(<<93, 184, 216, 34>>)>>]

Resp(t, to) == [type |-> t, to |-> to]

\* What the last URL of the chain answers to a HEAD request: no redirect, a
\* socket error, a timeout, a 3xx whose Location does not parse, a request
\* that throws while it is set up, or a redirect back into the chain or to
\* a special URL
Endings(k) ==
    {Resp(t, NoUrl) : t \in {"none", "error", "timeout", "badLocation", "throw"}}
    \cup {Resp("redirect", Good(j)) : j \in 1..k}
    \cup {Resp("redirect", Special(s)) : s \in SpecialKinds}

\* The networks: Good(1) -> Good(2) -> ... -> Good(k), then the ending
Worlds == UNION {{[k |-> k, ending |-> e] : e \in Endings(k)} : k \in 1..MaxChain}

\* The response to HEAD for the resource of u (the raw and the normalised
\* text name the same resource)
HeadResponse(u) ==
    IF u.kind = "good" /\ u.n < net.k THEN Resp("redirect", Good(u.n + 1))
    ELSE IF u.kind = "good" /\ u.n = net.k THEN net.ending
    ELSE Resp("none", NoUrl)

----------------------------------------------------------------------------
(* SingleURLValidator, RedirectProbe, ChainValidator, entry point.         *)

Accept == [valid |-> TRUE, error |-> ""]
\* A rejection whose error is left undefined
Reject_NoError(msg) == [valid |-> FALSE, error |-> ""]

Reject(msg) == [valid |-> FALSE, error |-> msg]
NoVerdict == [valid |-> FALSE, error |-> "(pending)"]

\* validateSingleUrl up to its await with the protocol test left out
validateSingleUrlSync_NoProtocolTest(u) ==
    IF UrlLength(u) > MAX_URL_LENGTH
    THEN [step |-> "return", result |-> Reject("URL exceeds maximum length")]
    ELSE IF ~Parses(u)
    THEN [step |-> "return", result |-> Reject("Invalid URL format")]
    ELSE IF isBlockedHostname(HostnameOf(u))
    THEN [step |-> "return", result |-> Reject("Hostname is not allowed")]
    ELSE IF isIPAddress(HostnameOf(u))
    THEN IF ClassifyAddress(HostnameOf(u))
         THEN [step |-> "return", result |-> Reject("IP address is not allowed")]
         ELSE [step |-> "return", result |-> Accept]
    ELSE [step |-> "lookup", result |-> NoVerdict]

\* validateSingleUrl up to its await with the host name test left out
validateSingleUrlSync_NoHostnameTest(u) ==
    IF UrlLength(u) > MAX_URL_LENGTH
    THEN [step |-> "return", result |-> Reject("URL exceeds maximum length")]
    ELSE IF ~Parses(u)
    THEN [step |-> "return", result |-> Reject("Invalid URL format")]
    ELSE IF Protocol(u) # "https:"
    THEN [step |-> "return",
          result |-> Reject("Only HTTPS protocol is allowed for image URLs")]
    ELSE IF isIPAddress(HostnameOf(u))
    THEN IF ClassifyAddress(HostnameOf(u))
         THEN [step |-> "return", result |-> Reject("IP address is not allowed")]
         ELSE [step |-> "return", result |-> Accept]
    ELSE [step |-> "lookup", result |-> NoVerdict]

\* validateSingleUrl up to its await: a verdict, or the DNS lookup
validateSingleUrlSync(u) ==
    IF UrlLength(u) > MAX_URL_LENGTH
    THEN [step |-> "return", result |-> Reject("URL exceeds maximum length")]
    ELSE IF ~Parses(u)
    THEN [step |-> "return", result |-> Reject("Invalid URL format")]
    ELSE IF Protocol(u) # "https:"
    THEN [step |-> "return",
          result |-> Reject("Only HTTPS protocol is allowed for image URLs")]
    ELSE IF isBlockedHostname(HostnameOf(u))
    THEN [step |-> "return", result |-> Reject("Hostname is not allowed")]
    ELSE IF isIPAddress(HostnameOf(u))
    THEN IF includes(HostnameOf(u), <<":">>)
         THEN IF isBlockedIPv6(HostnameOf(u))
              THEN [step |-> "return", result |-> Reject("IP address is not allowed")]
              ELSE [step |-> "return", result |-> Accept]
         ELSE IF isBlockedIP(HostnameOf(u))
              THEN [step |-> "return", result |-> Reject("IP address is not allowed")]
              ELSE [step |-> "return", result |-> Accept]
    ELSE [step |-> "lookup", result |-> NoVerdict]

\* The loop over the resolved addresses with only the first one looked at
CheckResolved_FirstOnly(ips) ==
    IF ips # <<>> /\ ClassifyAddress(Head(ips))
    THEN Reject("Resolved IP address is not allowed")
    ELSE Accept

\* for (const ip of ips): the first blocked address ends the loop
RECURSIVE CheckResolved(_)
CheckResolved(ips) ==
    IF ips = <<>> THEN Accept
    ELSE IF ClassifyAddress(Head(ips))
    THEN Reject("Resolved IP address is not allowed")
    ELSE CheckResolved(Tail(ips))

\* validateSingleUrl after its await
validateResolved(answer) ==
    IF ~answer.ok THEN Reject("Failed to resolve hostname")
    ELSE CheckResolved(answer.ips)

\* checkForRedirect: what the promise resolves to for a response
checkForRedirect(resp) ==
    IF resp.type = "redirect"
    THEN [hasRedirect |-> TRUE, redirectUrl |-> Href(resp.to)]
    ELSE [hasRedirect |-> FALSE, redirectUrl |-> NoUrl]

\* The text of an input is a sequence of tokens: each character the checks
\* of validateImageUrl look for is a token of its own ("/", "\\", " ", and
\* the control characters under their names), the other tokens are runs of
\* other characters (a scheme with its colon, a label of the host name,
\* "%40", a file name).

\* What String.prototype.trim removes, among the tokens used here
WhitespaceToks == {" ", "TAB", "LF", "CR"}

\* /[\x00-\x1F\x7F]/
ControlToks == {"NUL", "TAB", "LF", "CR", "US", "DEL"}

RECURSIVE trimStart(_)
trimStart(s) ==
    IF s # <<>> /\ Head(s) \in WhitespaceToks THEN trimStart(Tail(s)) ELSE s

RECURSIVE trimEnd(_)
trimEnd(s) ==
    IF s # <<>> /\ s[Len(s)] \in WhitespaceToks
    THEN trimEnd(SubSeq(s, 1, Len(s) - 1))
    ELSE s

\* url.trim()
trim(s) == trimEnd(trimStart(s))

\* /^https?:\/\/[^/]*\/\//.test(s): the scheme is matched in lower case only
DoubleSlashPattern(s) ==
    /\ Len(s) >= 5
    /\ s[1] \in {"http:", "https:"}
    /\ s[2] = "/"
    /\ s[3] = "/"
    /\ \E k \in 4..(Len(s) - 1) :
          /\ s[k] = "/"
          /\ s[k + 1] = "/"
          /\ \A m \in 4..(k - 1) : s[m] # "/"

\* validateImageUrl before it calls the chain validator
PreCheck(in) ==
    IF in.type \in {"null", "undefined"} THEN Reject("Image URL is required")
    ELSE IF in.type # "string" THEN Reject("Image URL must be a string")
    ELSE LET trimmedUrl == trim(in.text)
         IN  IF Len(trimmedUrl) = 0 THEN Reject("Image URL cannot be empty")
             ELSE IF \E i \in 1..Len(trimmedUrl) : trimmedUrl[i] \in ControlToks
             THEN Reject("Image URL contains invalid characters")
             ELSE IF includes(trimmedUrl, <<"%40">>) THEN Reject("Invalid URL format")
             ELSE IF includes(trimmedUrl, <<"\\">>) THEN Reject("Invalid URL format")
             ELSE IF DoubleSlashPattern(trimmedUrl) THEN Reject("Invalid URL format")
             ELSE Accept

\* An input that is a string: its text, and the URL its trimmed text is
\* (the text names the same resource whatever the case of its scheme)
Str(text, u) == [type |-> "string", text |-> text, url |-> u]

\* An input that is no string
NonStr(ty) == [type |-> ty, text |-> <<>>, url |-> NoUrl]

\* The text of the URL u: the raw text stops after the host name, the
\* normalised one has the "/" the parser adds
TextOf(u) ==
    IF ~Parses(u) THEN <<u.kind>>
    ELSE <<Protocol(u), "/", "/">> \o HostnameOf(u)
         \o (IF u.raw THEN <<>> ELSE <<"/">>)

\* The same text with its scheme in upper case
UpperScheme(text) == <<"HTTPS:">> \o Tail(text)

\* First URLs that pass the checks of validateImageUrl
PlainUrls ==
    {Good(1), Raw(Good(1)), Raw(Special("long")), Raw(Special("unparsable")),
     Raw(Special("longUnparsable"))}
    \cup {Special(s) : s \in SpecialKinds}

Inputs ==
    {NonStr(ty) : ty \in {"null", "undefined", "number", "object"}}
    \cup {Str(TextOf(u), u) : u \in PlainUrls}
    \cup {Str(<<>>, NoUrl), Str(<<" ", "TAB">>, NoUrl), Str(<<"LF">>, NoUrl)}
    \* white space around the text
    \cup {Str(<<" ">> \o TextOf(Good(1)) \o <<" ">>, Good(1))}
    \cup {Str(TextOf(Good(1)) \o <<c>>, Good(1)) : c \in {"TAB", "LF", "CR"}}
    \* a control character inside the text, or one that trim leaves in place
    \cup {Str(TextOf(Good(1)) \o <<"a", c, "b">>, Good(1)) : c \in ControlToks}
    \cup {Str(TextOf(Good(1)) \o <<c>>, Good(1)) : c \in {"NUL", "US", "DEL"}}
    \* %40 and the backslash
    \cup {Str(<<"https:", "/", "/", "user", "%40", "img1", ".", "example", "/">>,
               Good(1)),
          Str(<<"https:", "\\", "\\", "img1", ".", "example", "/">>, Good(1)),
          Str(TextOf(Good(1)) \o <<"a", "\\", "b">>, Good(1))}
    \* "//" right after the authority
    \cup {Str(TextOf(Good(1)) \o <<"/", "x.png">>, Good(1)),
          Str(TextOf(Special("http")) \o <<"/", "x.png">>, Special("http")),
          Str(TextOf(Special("ftp")) \o <<"/", "x.png">>, Special("ftp")),
          Str(UpperScheme(TextOf(Good(1))) \o <<"/", "x.png">>, Raw(Good(1)))}
    \* the scheme in upper case
    \cup {Str(UpperScheme(TextOf(Good(1))), Raw(Good(1)))}

Event(ev, url, hop, ok, to) == [ev |-> ev, url |-> url, hop |-> hop, ok |-> ok, to |-> to]

Finish(v) ==
    /\ pc' = "done"
    /\ verdict' = v

\* validateImageUrl: the checks on the raw input, then
\* followAndValidateRedirects(trimmedUrl)
Start ==
    /\ pc = "start"
    /\ IF ~PreCheck(input).valid
       THEN /\ Finish(PreCheck(input))
            /\ UNCHANGED <<urlString, redirectCount, visitedUrls>>
       ELSE /\ pc' = "hop"
            /\ urlString' = input.url
            /\ redirectCount' = 0
            /\ visitedUrls' = {}
            /\ UNCHANGED verdict
    /\ UNCHANGED <<net, input, log, addrVars, batchVars, appVars>>

\* followAndValidateRedirects with the loop test left out
HopCheck_NoLoopTest(count, url, visited) ==
    IF count > MAX_REDIRECTS THEN Reject("Too many redirects") ELSE Accept

\* followAndValidateRedirects: the redirect limit, then the loop test
HopCheck(count, url, visited) ==
    IF count > MAX_REDIRECTS THEN Reject("Too many redirects")
    ELSE IF url \in visited THEN Reject("Redirect loop detected")
    ELSE Accept

\* followAndValidateRedirects, entered for one hop
HopEnter ==
    /\ pc = "hop"
    /\ log' = Append(log, Event("hop", urlString, redirectCount,
                                urlString \notin visitedUrls, NoUrl))
    /\ IF ~HopCheck(redirectCount, urlString, visitedUrls).valid
       THEN /\ Finish(HopCheck(redirectCount, urlString, visitedUrls))
            /\ UNCHANGED visitedUrls
       ELSE /\ visitedUrls' = visitedUrls \cup {urlString}
            /\ pc' = "validate"
            /\ UNCHANGED verdict
    /\ UNCHANGED <<net, input, urlString, redirectCount, addrVars, batchVars, appVars>>

\* validateSingleUrl(urlString) is called and runs up to the DNS lookup
ValidateSync ==
    /\ pc = "validate"
    /\ LET r == validateSingleUrlSync(urlString)
           called == Append(log, Event("validate", urlString, redirectCount, TRUE, NoUrl))
       IN  IF r.step = "lookup"
           THEN /\ log' = Append(called, Event("lookup", urlString, redirectCount, TRUE, NoUrl))
                /\ pc' = "dns"
                /\ UNCHANGED verdict
           ELSE /\ log' = Append(called, Event("verdict", urlString, redirectCount,
                                               r.result.valid, NoUrl))
                /\ IF r.result.valid
                   THEN pc' = "validated" /\ UNCHANGED verdict
                   ELSE Finish(r.result)
    /\ UNCHANGED <<net, input, urlString, redirectCount, visitedUrls, addrVars, batchVars, appVars>>

\* The lookup returns and validateSingleUrl classifies the addresses
DnsReturn ==
    /\ pc = "dns"
    /\ LET r == validateResolved(resolveHostname(HostnameOf(urlString)))
       IN  /\ log' = Append(log, Event("verdict", urlString, redirectCount, r.valid, NoUrl))
           /\ IF r.valid
              THEN pc' = "validated" /\ UNCHANGED verdict
              ELSE Finish(r)
    /\ UNCHANGED <<net, input, urlString, redirectCount, visitedUrls, addrVars, batchVars, appVars>>

\* followAndValidateRedirects after a valid hop, with an exception of the
\* probe set-up swallowed and the chain accepted
AfterValidate_ThrowAccepted ==
    /\ pc = "validated"
    /\ IF redirectCount = 0 \/ redirectCount < MAX_REDIRECTS
       THEN IF HeadResponse(urlString).type = "throw"
            THEN /\ Finish(Accept)
                 /\ log' = Append(log, Event("throw", urlString, redirectCount,
                                             FALSE, NoUrl))
            ELSE /\ log' = Append(log, Event("probe", urlString, redirectCount, TRUE, NoUrl))
                 /\ pc' = "probing"
                 /\ UNCHANGED verdict
       ELSE /\ Finish(Accept)
            /\ UNCHANGED log
    /\ UNCHANGED <<net, input, urlString, redirectCount, visitedUrls, addrVars, batchVars, appVars>>

\* followAndValidateRedirects after a valid hop: the HEAD probe is sent when
\* redirectCount === 0 || redirectCount < MAX_REDIRECTS, else the chain is
\* accepted; a request that throws while it is set up rejects the promise
\* of checkForRedirect, and the catch of validateImageUrl ends the call
AfterValidate ==
    /\ pc = "validated"
    /\ IF redirectCount = 0 \/ redirectCount < MAX_REDIRECTS
       THEN IF HeadResponse(urlString).type = "throw"
            THEN /\ Finish(Reject("Failed to validate image URL"))
                 /\ log' = Append(log, Event("throw", urlString, redirectCount,
                                             FALSE, NoUrl))
            ELSE /\ log' = Append(log, Event("probe", urlString, redirectCount, TRUE, NoUrl))
                 /\ pc' = "probing"
                 /\ UNCHANGED verdict
       ELSE /\ Finish(Accept)
            /\ UNCHANGED log
    /\ UNCHANGED <<net, input, urlString, redirectCount, visitedUrls, addrVars, batchVars, appVars>>

\* The probe returns and its target is accepted as it is
ProbeReturn_TargetUnchecked ==
    /\ pc = "probing"
    /\ LET r == checkForRedirect(HeadResponse(urlString))
       IN  /\ log' = Append(log, Event("response", urlString, redirectCount,
                                       r.hasRedirect, r.redirectUrl))
           /\ Finish(Accept)
    /\ UNCHANGED <<net, input, urlString, redirectCount, visitedUrls, addrVars, batchVars, appVars>>

\* The probe returns and a socket error or a timeout rejects the URL
ProbeReturn_FailClosed ==
    /\ pc = "probing"
    /\ LET r == checkForRedirect(HeadResponse(urlString))
       IN  /\ log' = Append(log, Event("response", urlString, redirectCount,
                                       r.hasRedirect, r.redirectUrl))
           /\ IF r.hasRedirect /\ r.redirectUrl # NoUrl
              THEN /\ urlString' = r.redirectUrl
                   /\ redirectCount' = redirectCount + 1
                   /\ pc' = "hop"
                   /\ UNCHANGED verdict
              ELSE /\ IF HeadResponse(urlString).type \in {"error", "timeout"}
                      THEN Finish(Reject("Failed to validate image URL"))
                      ELSE Finish(Accept)
                   /\ UNCHANGED <<urlString, redirectCount>>
    /\ UNCHANGED <<net, input, visitedUrls, addrVars, batchVars, appVars>>

\* The probe returns and a redirect is followed without being counted
ProbeReturn_CountNotRaised ==
    /\ pc = "probing"
    /\ LET r == checkForRedirect(HeadResponse(urlString))
       IN  /\ log' = Append(log, Event("response", urlString, redirectCount,
                                       r.hasRedirect, r.redirectUrl))
           /\ IF r.hasRedirect /\ r.redirectUrl # NoUrl
              THEN /\ urlString' = r.redirectUrl
                   /\ pc' = "hop"
                   /\ UNCHANGED <<verdict, redirectCount>>
              ELSE /\ Finish(Accept)
                   /\ UNCHANGED <<urlString, redirectCount>>
    /\ UNCHANGED <<net, input, visitedUrls, addrVars, batchVars, appVars>>

\* The probe returns: a redirect enters the next hop with its target, anything
\* else accepts the chain
ProbeReturn ==
    /\ pc = "probing"
    /\ LET r == checkForRedirect(HeadResponse(urlString))
       IN  /\ log' = Append(log, Event("response", urlString, redirectCount,
                                       r.hasRedirect, r.redirectUrl))
           /\ IF r.hasRedirect /\ r.redirectUrl # NoUrl
              THEN /\ urlString' = r.redirectUrl
                   /\ redirectCount' = redirectCount + 1
                   /\ pc' = "hop"
                   /\ UNCHANGED verdict
              ELSE /\ Finish(Accept)
                   /\ UNCHANGED <<urlString, redirectCount>>
    /\ UNCHANGED <<net, input, visitedUrls, addrVars, batchVars, appVars>>

AddrIdle == addr = <<>> /\ apc = "idle" /\ aBlocked = FALSE

\* new InMemoryQueue(): no job stored, nothing waiting
QueueIdle == jobs = <<>> /\ queue = <<>> /\ returned = <<>>

\* new JobProcessor(queue, tempManager): not started, no timer armed
WorkerIdle ==
    /\ isRunning = FALSE
    /\ isProcessing = FALSE
    /\ pollTimer = 0
    /\ timers = {}
    /\ acts = {}
    /\ jlog = <<>>

\* extractImageURLs is not being called
ExtractIdle == doc = <<>> /\ markdown = <<>> /\ imageUrls = <<>> /\ xpc = "idle"

\* new TokenManager(): nothing stored, no refresh under way
NoTokens == [accessToken |-> "null", refreshToken |-> FALSE, expired |-> FALSE]

TokenIdle ==
    /\ storage = NoTokens
    /\ refreshPromise = 0
    /\ requests = {}
    /\ issued = 0
    /\ authState = "none"
    /\ loggedOut = FALSE

\* useAutoSave is not mounted
NoTimer == [due |-> 0, content |-> ""]

NoCall == [content |-> "", at |-> 0, called |-> FALSE, cancelled |-> FALSE]

SaveIdle ==
    /\ content = ""
    /\ saveStatus = "idle"
    /\ lastSavedContent = ""
    /\ debounceTimer = NoTimer
    /\ pending = {}
    /\ now = 0
    /\ saves = <<>>
    /\ lastCall = NoCall

\* the editor store as created: empty text, empty history
NoOp == [op |-> "none", before |-> "", found |-> FALSE]

EditorIdle ==
    /\ stateMarkdown = ""
    /\ past = <<>>
    /\ future = <<>>
    /\ propPast = <<>>
    /\ propFuture = <<>>
    /\ elapsed = TRUE
    /\ lastOp = NoOp

FrontIdle == TokenIdle /\ SaveIdle /\ EditorIdle

AppIdle == QueueIdle /\ WorkerIdle /\ ExtractIdle /\ FrontIdle

BatchIdle ==
    /\ bUrls = <<>>
    /\ bCalls = <<>>
    /\ bVisited = <<>>
    /\ bResult = <<>>
    /\ bpc = "idle"

ChainIdle ==
    /\ net = [k |-> 1, ending |-> Resp("none", NoUrl)]
    /\ input = Str(TextOf(Good(1)), Good(1))
    /\ pc = "idle"
    /\ urlString = NoUrl
    /\ redirectCount = 0
    /\ visitedUrls = {}
    /\ verdict = NoVerdict
    /\ log = <<>>

\* the backend is not in use
BackIdle == AddrIdle /\ ChainIdle /\ BatchIdle /\ QueueIdle /\ WorkerIdle /\ ExtractIdle

\* One validateImageUrl call on one input, in one network; only a good
\* first URL has a chain behind it, and the longer chains are entered with
\* a plain text
Init ==
    /\ AddrIdle
    /\ BatchIdle
    /\ AppIdle
    /\ input \in Inputs
    /\ net \in Worlds
    /\ (input.url.kind # "good" \/ ~PreCheck(input).valid)
          => net = [k |-> 1, ending |-> Resp("none", NoUrl)]
    /\ input.text # TextOf(input.url) => net.k = 1
    /\ pc = "start"
    /\ urlString = NoUrl
    /\ redirectCount = 0
    /\ visitedUrls = {}
    /\ verdict = NoVerdict
    /\ log = <<>>

Next ==
    \/ Start
    \/ HopEnter
    \/ ValidateSync
    \/ DnsReturn
    \/ AfterValidate
    \/ ProbeReturn

Spec == Init /\ [][Next]_vars

----------------------------------------------------------------------------
(* AddrSpec: the address classifier applied to one address text.           *)

QuadLeq(p, q) ==
    \/ p[1] < q[1]
    \/ p[1] = q[1] /\ p[2] < q[2]
    \/ p[1] = q[1] /\ p[2] = q[2] /\ p[3] < q[3]
    \/ p[1] = q[1] /\ p[2] = q[2] /\ p[3] = q[3] /\ p[4] <= q[4]

\* q lies in some range of the table, decided on the octets themselves
InBlockedTable(q) ==
    \E i \in 1..Len(BlockedQuads) :
        QuadLeq(BlockedQuads[i][1], q) /\ QuadLeq(q, BlockedQuads[i][2])

Succ4(q) ==
    IF q[4] < 255 THEN <<q[1], q[2], q[3], q[4] + 1>>
    ELSE IF q[3] < 255 THEN <<q[1], q[2], q[3] + 1, 0>>
    ELSE IF q[2] < 255 THEN <<q[1], q[2] + 1, 0, 0>>
    ELSE <<q[1] + 1, 0, 0, 0>>

Pred4(q) ==
    IF q[4] > 0 THEN <<q[1], q[2], q[3], q[4] - 1>>
    ELSE IF q[3] > 0 THEN <<q[1], q[2], q[3] - 1, 255>>
    ELSE IF q[2] > 0 THEN <<q[1], q[2] - 1, 255, 255>>
    ELSE <<q[1] - 1, 255, 255, 255>>

\* Both ends of every range, and the addresses just outside them
EdgeQuads ==
    UNION {{BlockedQuads[i][1], BlockedQuads[i][2]} : i \in 1..Len(BlockedQuads)}
    \cup {Pred4(BlockedQuads[i][1]) : i \in {j \in 1..Len(BlockedQuads) :
                                             BlockedQuads[j][1] # <<0, 0, 0, 0>>}}
    \cup {Succ4(BlockedQuads[i][2]) : i \in {j \in 1..Len(BlockedQuads) :
                                             BlockedQuads[j][2] # <<255, 255, 255, 255>>}}

GridA == {1, 8, 93, 100, 126, 128, 142, 169, 172, 192, 198, 203, 223}
GridB == {0, 18, 51, 64, 128, 168, 184, 254}
GridC == {0, 2, 100, 113, 216}
GridD == {1, 34, 255}

QuadSamples ==
    EdgeQuads \cup {<<a, b, c, d>> : a \in GridA, b \in GridB, c \in GridC, d \in GridD}

\* Parts that are no octet: empty, letters, digits then letters, a value
\* above 255, a sign
BadParts == {<<>>, <<"a">>, <<"8", "a">>, <<"2", "5", "6">>, <<"9", "9", "9">>,
             <<"-", "1">>, <<"x", "8">>}

BaseParts == {<<Dec(8), Dec(8), Dec(8), Dec(8)>>, <<Dec(10), Dec(0), Dec(0), Dec(1)>>}

MalformedV4 ==
    {join([b EXCEPT ![i] = p], ".") : b \in BaseParts, i \in 1..4, p \in BadParts}
    \cup {Dotted(<<8, 8, 8>>), Dotted(<<8, 8, 8, 8, 8>>), Dotted(<<8>>), <<>>,
          Dotted(<<8, 8, 8, 8>>) \o <<".">>}

\* A valid dotted quad: four parts, each one to three digits, each at most 255
IsValidQuadText(t) ==
    /\ IsQuadShape(t)
    /\ \A i \in 1..4 : DigitsValue(split(t, ".")[i], 1, 0) <= 255

\* The octets a valid dotted quad text spells
QuadOf(t) == [i \in 1..4 |-> DigitsValue(split(t, ".")[i], 1, 0)]

V4Inputs == {Dotted(q) : q \in QuadSamples} \cup MalformedV4

\* First groups of IPv6 addresses around the blocked prefixes
FirstGroups == {65152, 65153, 65183, 65200, 65215,   \* fe80 fe81 fe9f feb0 febf
                65151, 65216,                         \* fe7f fec0
                64512, 64768, 65023,                  \* fc00 fd00 fdff
                64511, 65024,                         \* fbff fe00
                65280, 65282, 65535,                  \* ff00 ff02 ffff
                8193, 9734, 10752}                    \* 2001 2606 2a00

\* The group opens an address of fe80::/10, fc00::/7 or ff00::/8
InBlockedV6Prefix(g) ==
    \/ g \in 65152..65215
    \/ g \in 64512..65023
    \/ g \in 65280..65535

V6Tails == {<<":", ":", "1">>,
            <<":">> \o join(<<<<"0">>, <<"0">>, <<"0">>, <<"0">>, <<"0">>, <<"0">>, <<"1">>>>, ":"),
            <<":", ":", "a", "b", "c", "d", ":", "1">>}

UpperChar(c) ==
    IF c \in Range(HexLower) THEN HexUpper[CHOOSE i \in 1..16 : HexLower[i] = c]
    ELSE c

ToUpper(s) == [i \in 1..Len(s) |-> UpperChar(s[i])]

V6Text(g, tail, upper) == IF upper THEN ToUpper(Hex(g) \o tail) ELSE Hex(g) \o tail

V6Loopback == <<":", ":", "1">>
V6LoopbackLong ==
    join(<<<<"0">>, <<"0">>, <<"0">>, <<"0">>, <<"0">>, <<"0">>, <<"0">>, <<"1">>>>, ":")
V6Unspecified == <<":", ":">>
V6UnspecifiedLong ==
    join(<<<<"0">>, <<"0">>, <<"0">>, <<"0">>, <<"0">>, <<"0">>, <<"0">>, <<"0">>>>, ":")
\* 2001:4860:4860::8888
V6Public == join(<<Hex(8193), Hex(18528), Hex(18528)>>, ":") \o <<":", ":">> \o Hex(34952)

\* The IPv4 addresses embedded in the IPv4-mapped samples
MappedQuads ==
    EdgeQuads \cup {<<8, 8, 8, 8>>, <<93, 184, 216, 34>>, <<127, 0, 0, 1>>,
                    <<10, 1, 2, 3>>, <<100, 100, 1, 1>>}

MappedForms == {"dotted", "dottedLong", "dottedUpper", "hex"}

\* ::ffff:a.b.c.d in its textual forms
MappedText(q, form) ==
    CASE form = "dotted" -> <<":">> \o MappedPrefix \o Dotted(q)
      [] form = "dottedLong" ->
            join(<<<<"0">>, <<"0">>, <<"0">>, <<"0">>, <<"0">>>>, ":")
            \o MappedPrefix \o Dotted(q)
      [] form = "dottedUpper" -> ToUpper(<<":">> \o MappedPrefix) \o Dotted(q)
      [] form = "hex" ->
            <<":">> \o MappedPrefix \o Hex(q[1] * 256 + q[2])
            \o <<":">> \o Hex(q[3] * 256 + q[4])

V6Inputs ==
    {V6Loopback, V6LoopbackLong, V6Unspecified, V6UnspecifiedLong, V6Public}
    \cup {V6Text(g, t, u) : g \in FirstGroups, t \in V6Tails, u \in BOOLEAN}
    \cup {MappedText(q, f) : q \in MappedQuads, f \in MappedForms}

AddrInit ==
    /\ ChainIdle
    /\ BatchIdle
    /\ AppIdle
    /\ addr \in V4Inputs \cup V6Inputs
    /\ apc = "ready"
    /\ aBlocked = FALSE

\* isBlockedIP(ip) is called on a text without ":"
CallIsBlockedIP ==
    /\ apc = "ready"
    /\ ~includes(addr, <<":">>)
    /\ aBlocked' = isBlockedIP(addr)
    /\ apc' = "done"
    /\ UNCHANGED <<addr, chainVars, batchVars, appVars>>

\* isBlockedIPv6(ip) is called on a text with ":"
CallIsBlockedIPv6 ==
    /\ apc = "ready"
    /\ includes(addr, <<":">>)
    /\ aBlocked' = isBlockedIPv6(addr)
    /\ apc' = "done"
    /\ UNCHANGED <<addr, chainVars, batchVars, appVars>>

AddrNext == CallIsBlockedIP \/ CallIsBlockedIPv6

AddrSpec == AddrInit /\ [][AddrNext]_vars

----------------------------------------------------------------------------
(* BatchSpec: validateImageUrls, that is Promise.all over one              *)
(* validateImageUrl call per URL.  The calls run interleaved: each step of *)
(* BatchStep is the stretch of one call between two awaits.                *)

\* The state of one validateImageUrl call
CallState(p, u, n, v) == [pc |-> p, urlString |-> u, redirectCount |-> n, verdict |-> v]

\* The call returns v
Returned(c, v) == [c EXCEPT !.pc = "done", !.verdict = v]

\* One step of the call c on the input in, with the visited set of this
\* call: the call and the set after the step
CallStep(in, c, visited) ==
    CASE c.pc = "start" ->
            [call |-> IF ~PreCheck(in).valid THEN Returned(c, PreCheck(in))
                      ELSE CallState("hop", in.url, 0, c.verdict),
             visited |-> visited]
      [] c.pc = "hop" ->
            IF ~HopCheck(c.redirectCount, c.urlString, visited).valid
            THEN [call |-> Returned(c, HopCheck(c.redirectCount, c.urlString, visited)),
                  visited |-> visited]
            ELSE [call |-> [c EXCEPT !.pc = "validate"],
                  visited |-> visited \cup {c.urlString}]
      [] c.pc = "validate" ->
            LET r == validateSingleUrlSync(c.urlString)
            IN  [call |-> IF r.step = "lookup" THEN [c EXCEPT !.pc = "dns"]
                          ELSE IF r.result.valid THEN [c EXCEPT !.pc = "validated"]
                          ELSE Returned(c, r.result),
                 visited |-> visited]
      [] c.pc = "dns" ->
            LET r == validateResolved(resolveHostname(HostnameOf(c.urlString)))
            IN  [call |-> IF r.valid THEN [c EXCEPT !.pc = "validated"]
                          ELSE Returned(c, r),
                 visited |-> visited]
      [] c.pc = "validated" ->
            [call |-> IF c.redirectCount = 0 \/ c.redirectCount < MAX_REDIRECTS
                      THEN IF HeadResponse(c.urlString).type = "throw"
                           THEN Returned(c, Reject("Failed to validate image URL"))
                           ELSE [c EXCEPT !.pc = "probing"]
                      ELSE Returned(c, Accept),
             visited |-> visited]
      [] c.pc = "probing" ->
            LET r == checkForRedirect(HeadResponse(c.urlString))
            IN  [call |-> IF r.hasRedirect /\ r.redirectUrl # NoUrl
                          THEN CallState("hop", r.redirectUrl, c.redirectCount + 1,
                                         c.verdict)
                          ELSE Returned(c, Accept),
                 visited |-> visited]

\* One visited set for the whole batch
VisitedSlot_Shared(i) == 1

\* The visited set of call i: the default value new Set() of the
\* parameter visitedUrls is evaluated anew for every call
VisitedSlot(i) == i

\* URLs of a batch, and the networks it runs in
BatchInputs ==
    {Str(TextOf(Good(1)), Good(1)), Str(TextOf(Special("http")), Special("http")),
     Str(TextOf(Special("nxdomain")), Special("nxdomain")), NonStr("null")}

BatchWorlds ==
    {w \in Worlds :
        /\ w.k <= 2
        /\ \/ w.ending.type \in {"none", "throw"}
           \/ w.ending.type = "redirect"
                 /\ w.ending.to \in {Good(1), Special("private4")}}

\* Longest batch
MaxBatch == 2

RECURSIVE Lists(_, _)
Lists(S, n) ==
    IF n = 0 THEN {<<>>}
    ELSE Lists(S, n - 1) \cup {Append(l, x) : l \in {m \in Lists(S, n - 1) : Len(m) = n - 1}, x \in S}

\* validateImageUrls(urls): urls.map has called validateImageUrl for every
\* URL, no call has run yet
BatchInit ==
    /\ AddrIdle
    /\ AppIdle
    /\ net \in BatchWorlds
    /\ input = Str(TextOf(Good(1)), Good(1))
    /\ pc = "idle"
    /\ urlString = NoUrl
    /\ redirectCount = 0
    /\ visitedUrls = {}
    /\ verdict = NoVerdict
    /\ log = <<>>
    /\ bUrls \in Lists(BatchInputs, MaxBatch)
    /\ bCalls = [i \in 1..Len(bUrls) |-> CallState("start", NoUrl, 0, NoVerdict)]
    /\ bVisited = [i \in 1..Len(bUrls) |-> {}]
    /\ bResult = <<>>
    /\ bpc = "running"

\* One of the calls that has not returned runs up to its next await
BatchStep ==
    /\ bpc = "running"
    /\ \E i \in 1..Len(bUrls) :
          /\ bCalls[i].pc # "done"
          /\ LET r == CallStep(bUrls[i], bCalls[i], bVisited[VisitedSlot(i)])
             IN  /\ bCalls' = [bCalls EXCEPT ![i] = r.call]
                 /\ bVisited' = [bVisited EXCEPT ![VisitedSlot(i)] = r.visited]
    /\ UNCHANGED <<bUrls, bResult, bpc, addrVars, chainVars, appVars>>

\* Promise.all: every call has returned, the array of the verdicts in the
\* order of the calls is the result
BatchSettle ==
    /\ bpc = "running"
    /\ \A i \in 1..Len(bUrls) : bCalls[i].pc = "done"
    /\ bResult' = [i \in 1..Len(bUrls) |-> bCalls[i].verdict]
    /\ bpc' = "settled"
    /\ UNCHANGED <<bUrls, bCalls, bVisited, addrVars, chainVars, appVars>>

BatchNext == BatchStep \/ BatchSettle

BatchSpec == BatchInit /\ [][BatchNext]_vars

----------------------------------------------------------------------------
(* Claims on the address classifier (AddrSpec).                            *)

\* C5: every well-formed IPv4 literal outside every range of the blocked
\* table, those with a first octet of 128 or more included, is not blocked,
\* and its number is not negative (the conversion is unsigned).
C5_PublicIPv4NotBlocked ==
    (apc = "done" /\ IsValidQuadText(addr) /\ ~InBlockedTable(QuadOf(addr)))
        => (aBlocked = FALSE /\ ~WNeg(ipToNumber(addr)))

\* C6: every IPv4 literal inside a range of the blocked table, both ends of
\* the range included, is blocked.
C6_TableRangesBlocked ==
    (apc = "done" /\ IsValidQuadText(addr) /\ InBlockedTable(QuadOf(addr)))
        => aBlocked = TRUE

\* C6 witness: the lower end of 10.0.0.0/8 has been classified as blocked.
C6_Witness ==
    apc = "done" /\ addr = Dotted(<<10, 0, 0, 0>>) /\ aBlocked = TRUE

\* C7: every text that is not a valid dotted quad (wrong number of parts, a
\* non-numeric part, an octet outside 0..255) is blocked by isBlockedIP.
C7_MalformedIPv4Blocked ==
    (apc = "done" /\ ~includes(addr, <<":">>) /\ ~IsValidQuadText(addr))
        => aBlocked = TRUE

\* C8: every IPv4-mapped IPv6 address, dotted or hexadecimal, is blocked
\* whenever isBlockedIP blocks the IPv4 address embedded in it.
C8_MappedIPv4Blocked ==
    \A q \in MappedQuads : \A f \in MappedForms :
        (apc = "done" /\ addr = MappedText(q, f) /\ isBlockedIP(Dotted(q)))
            => aBlocked = TRUE

\* C9: isBlockedIPv6 blocks ::1, ::, and every address of fe80::/10, fc00::/7
\* and ff00::/8, and does not block the public 2001:4860:4860::8888.
C9_IPv6Blocks ==
    apc = "done" =>
        /\ addr \in {V6Loopback, V6LoopbackLong, V6Unspecified, V6UnspecifiedLong}
              => aBlocked = TRUE
        /\ \A g \in FirstGroups : \A t \in V6Tails : \A u \in BOOLEAN :
              (addr = V6Text(g, t, u) /\ InBlockedV6Prefix(g)) => aBlocked = TRUE
        /\ addr = V6Public => aBlocked = FALSE

\* C9 witness: febf::1, the last first group of fe80::/10, has been blocked.
C9_Witness ==
    apc = "done" /\ addr = V6Text(65215, <<":", ":", "1">>, FALSE) /\ aBlocked = TRUE

----------------------------------------------------------------------------
(* Claims on the chain validator and the single-URL validator (Spec).      *)

Accepted == pc = "done" /\ verdict.valid
LogIdx == 1..Len(log)

\* C1: a chain is accepted only from a hop whose URL passed validateSingleUrl
\* and whose redirect probe reported no redirect; it is never accepted while
\* the redirect status of its last URL is unprobed.
C1_AcceptedOnlyAfterProbe ==
    Accepted =>
        /\ \E i \in LogIdx : log[i] = Event("verdict", urlString, redirectCount, TRUE, NoUrl)
        /\ \E i \in LogIdx : /\ log[i].ev = "response"
                             /\ log[i].url = urlString
                             /\ log[i].hop = redirectCount
                             /\ ~log[i].ok

\* C2: when every hop passes validation and every probe answers with a
\* redirect to a fresh URL, four or more in a row, the verdict is
\* 'Too many redirects' after exactly MAX_REDIRECTS + 1 validations.
C2_FourRedirectsTooMany ==
    (pc = "done" /\ PreCheck(input).valid /\ input.url.kind = "good"
        /\ net.k >= MAX_REDIRECTS + 2)
        => /\ verdict = Reject("Too many redirects")
           /\ Cardinality({i \in LogIdx : log[i].ev = "validate"}) = MAX_REDIRECTS + 1

\* C3: a probe is sent to a URL only after that URL passed validateSingleUrl
\* at the same hop; the validation of hop N+1 begins only after the verdict
\* and the probe response of hop N, on the target of that response; and in
\* an accepted chain every redirect target a probe found was validated.
C3_HopsSequential ==
    /\ \A i \in LogIdx :
          log[i].ev = "probe" =>
              \E j \in 1..(i - 1) :
                  log[j] = Event("verdict", log[i].url, log[i].hop, TRUE, NoUrl)
    /\ \A i \in LogIdx :
          (log[i].ev = "validate" /\ log[i].hop > 0) =>
              \E j \in 1..(i - 1) : \E k \in (j + 1)..(i - 1) :
                  /\ log[j].ev = "verdict" /\ log[j].ok /\ log[j].hop = log[i].hop - 1
                  /\ log[k].ev = "response" /\ log[k].hop = log[i].hop - 1
                  /\ log[k].ok /\ log[k].to = log[i].url
    /\ Accepted =>
          \A i \in LogIdx :
              (log[i].ev = "response" /\ log[i].ok) =>
                  \E j \in (i + 1)..Len(log) :
                      /\ log[j].ev = "verdict" /\ log[j].ok /\ log[j].url = log[i].to

\* C3 witness: a chain was accepted after two redirects were followed.
C3_Witness == Accepted /\ redirectCount = 2

\* C4: when the URL of a hop is already in the visited set the chain ends at
\* once with 'Redirect loop detected'; a URL that redirects to itself and a
\* cycle a -> b -> a end so, and are never accepted.
C4_LoopRejected ==
    /\ \A i \in LogIdx :
          (log[i].ev = "hop" /\ ~log[i].ok) =>
              /\ i = Len(log)
              /\ pc = "done"
              /\ verdict = Reject("Redirect loop detected")
    /\ (pc = "done" /\ PreCheck(input).valid /\ input.url.kind = "good" /\ net.k <= 2
            /\ net.ending.type = "redirect" /\ net.ending.to.kind = "good")
          => verdict = Reject("Redirect loop detected")

\* C4 witness: the cycle a -> b -> a, entered with a text that is not yet
\* normalised, has been rejected as a loop.
C4_Witness ==
    /\ pc = "done"
    /\ verdict = Reject("Redirect loop detected")
    /\ input.url = Raw(Good(1))
    /\ net = [k |-> 2, ending |-> Resp("redirect", Good(1))]

\* C10: for a host name that is no IP literal every address the resolver
\* returns is classified: the URL passes only if the lookup succeeds and no
\* address, at any position, is blocked; a blocked address gives
\* 'Resolved IP address is not allowed', a failed lookup
\* 'Failed to resolve hostname'.
C10_EveryResolvedAddressClassified ==
    \A i \in LogIdx :
        (log[i].ev = "lookup" /\ i < Len(log)) =>
            LET a == resolveHostname(HostnameOf(log[i].url))
                clean == a.ok /\ \A j \in 1..Len(a.ips) : ~ClassifyAddress(a.ips[j])
                v == log[i + 1]
            IN  /\ v.ev = "verdict" /\ v.url = log[i].url /\ v.ok = clean
                /\ ~clean =>
                      /\ pc = "done"
                      /\ verdict = IF a.ok THEN Reject("Resolved IP address is not allowed")
                                   ELSE Reject("Failed to resolve hostname")

\* C10 witness: a host whose second address is private has been rejected.
C10_Witness ==
    /\ pc = "done"
    /\ urlString = Special("mixedLast")
    /\ verdict = Reject("Resolved IP address is not allowed")

----------------------------------------------------------------------------
(* Claims on the scheme, the IP literals, the host names and the order of  *)
(* the checks of validateSingleUrl.                                        *)

\* The scheme of u is known and is not https
NotHttps(u) == Parses(u) /\ Protocol(u) # "https:"

\* C11 as stated: at every hop, first URL or redirect target, a URL whose
\* scheme is not https is rejected with 'Only HTTPS protocol is allowed for
\* image URLs', and an accepted chain holds https URLs only.
C11_NonHttpsRejectedAsProtocol ==
    /\ \A i \in LogIdx :
          (log[i].ev = "hop" /\ NotHttps(log[i].url)) =>
              \/ pc = "validate" /\ i = Len(log)
              \/ /\ pc = "done"
                 /\ verdict = Reject("Only HTTPS protocol is allowed for image URLs")
    /\ Accepted => \A i \in LogIdx : log[i].ev = "hop" => ~NotHttps(log[i].url)

\* C11 amended: at every hop a URL whose scheme is not https is rejected,
\* with 'URL exceeds maximum length' when its text is longer than
\* MAX_URL_LENGTH and with 'Only HTTPS protocol is allowed for image URLs'
\* otherwise; an accepted chain holds https URLs only.
C11_NonHttpsNeverAccepted ==
    /\ \A i \in LogIdx :
          (log[i].ev = "hop" /\ NotHttps(log[i].url)) =>
              \/ pc = "validate" /\ i = Len(log)
              \/ /\ pc = "done"
                 /\ verdict =
                       IF UrlLength(log[i].url) > MAX_URL_LENGTH
                       THEN Reject("URL exceeds maximum length")
                       ELSE Reject("Only HTTPS protocol is allowed for image URLs")
    /\ Accepted => \A i \in LogIdx : log[i].ev = "hop" => ~NotHttps(log[i].url)

\* C11 witness: an https URL has redirected to an http URL and the chain is
\* rejected for the protocol.
C11_Witness ==
    /\ pc = "done"
    /\ redirectCount >= 1
    /\ urlString = Special("http")
    /\ verdict = Reject("Only HTTPS protocol is allowed for image URLs")

\* parsedUrl.hostname is an IP literal as the URL parser reports it: a dotted
\* quad, or an IPv6 address in brackets
Unbracket(h) == SubSeq(h, 2, Len(h) - 1)
IsBracketed(h) == Len(h) >= 2 /\ h[1] = "[" /\ h[Len(h)] = "]"
IsIPLiteralHost(h) ==
    IF IsBracketed(h) THEN isIPAddress(Unbracket(h))
    ELSE ~includes(h, <<":">>) /\ isIPAddress(h)

\* The checks of validateSingleUrl that come before the host name is looked
\* at all pass for u
ReachesHostname(u) ==
    UrlLength(u) <= MAX_URL_LENGTH /\ Parses(u) /\ Protocol(u) = "https:"

\* C12: when the host name of the parsed URL is an IP literal, IPv4 or
\* bracketed IPv6, validateSingleUrl classifies it directly: the call is
\* followed by its verdict and by no lookup, a blocked literal gives
\* 'IP address is not allowed', an unblocked literal passes.
C12_IPLiteralClassifiedWithoutLookup ==
    \A i \in LogIdx :
        (/\ log[i].ev = "validate"
         /\ ReachesHostname(log[i].url)
         /\ IsIPLiteralHost(HostnameOf(log[i].url))) =>
            LET h == HostnameOf(log[i].url)
                blocked == IF IsBracketed(h) THEN isBlockedIPv6(Unbracket(h))
                           ELSE isBlockedIP(h)
            IN  /\ i < Len(log)
                /\ log[i + 1].ev = "verdict"
                /\ log[i + 1].ok = ~blocked
                /\ blocked => /\ pc = "done"
                              /\ verdict = Reject("IP address is not allowed")

\* u is an https URL whose host name is on the deny-list
HttpsBlockedHost(u) ==
    Parses(u) /\ Protocol(u) = "https:" /\ isBlockedHostname(HostnameOf(u))

\* C13 as stated: for every https URL whose host name matches a blocked
\* pattern the verdict is 'Hostname is not allowed', and neither a DNS
\* lookup nor a HEAD probe is made for that URL.
C13_BlockedHostnameBeforeDns ==
    \A i \in LogIdx :
        /\ (log[i].ev = "hop" /\ HttpsBlockedHost(log[i].url)) =>
              \/ pc = "validate" /\ i = Len(log)
              \/ pc = "done" /\ verdict = Reject("Hostname is not allowed")
        /\ log[i].ev \in {"lookup", "probe"} => ~HttpsBlockedHost(log[i].url)

\* C13 amended: for every https URL of at most MAX_URL_LENGTH characters
\* whose host name matches a blocked pattern the verdict is 'Hostname is not
\* allowed' (a longer one gets 'URL exceeds maximum length'); in both cases
\* neither a DNS lookup nor a HEAD probe is made for that URL, whatever the
\* resolver would answer for the name.
C13_BlockedHostnameNoLookup ==
    \A i \in LogIdx :
        /\ (log[i].ev = "hop" /\ HttpsBlockedHost(log[i].url)) =>
              \/ pc = "validate" /\ i = Len(log)
              \/ /\ pc = "done"
                 /\ verdict = IF UrlLength(log[i].url) > MAX_URL_LENGTH
                              THEN Reject("URL exceeds maximum length")
                              ELSE Reject("Hostname is not allowed")
        /\ log[i].ev \in {"lookup", "probe"} => ~HttpsBlockedHost(log[i].url)

\* C13 witness: a redirect to a *.svc.cluster.local host has been rejected
\* for its host name, and the log holds no lookup or probe for it.
C13_Witness ==
    /\ pc = "done"
    /\ urlString = Special("cluster")
    /\ redirectCount >= 1
    /\ verdict = Reject("Hostname is not allowed")
    /\ \A i \in LogIdx : log[i].url = urlString => log[i].ev \notin {"lookup", "probe"}

\* The checks of validateSingleUrl in their order, with the reason each
\* one reports
CheckOrder == <<"length", "parse", "protocol", "hostname", "literal", "lookup",
                "resolved">>

CheckReason(c) ==
    CASE c = "length" -> "URL exceeds maximum length"
      [] c = "parse" -> "Invalid URL format"
      [] c = "protocol" -> "Only HTTPS protocol is allowed for image URLs"
      [] c = "hostname" -> "Hostname is not allowed"
      [] c = "literal" -> "IP address is not allowed"
      [] c = "lookup" -> "Failed to resolve hostname"
      [] c = "resolved" -> "Resolved IP address is not allowed"

\* The host name of u is an IP literal that the address classifier blocks
BlockedLiteral(h) ==
    /\ IsIPLiteralHost(h)
    /\ IF IsBracketed(h) THEN isBlockedIPv6(Unbracket(h)) ELSE isBlockedIP(h)

\* u fails check c, taken on its own (the checks after parsing need a URL
\* that parses, the two DNS checks a host name that is no IP literal)
CheckFails(c, u) ==
    CASE c = "length" -> UrlLength(u) > MAX_URL_LENGTH
      [] c = "parse" -> ~Parses(u)
      [] c = "protocol" -> Parses(u) /\ Protocol(u) # "https:"
      [] c = "hostname" -> Parses(u) /\ isBlockedHostname(HostnameOf(u))
      [] c = "literal" -> Parses(u) /\ BlockedLiteral(HostnameOf(u))
      [] c = "lookup" -> /\ Parses(u)
                         /\ ~IsIPLiteralHost(HostnameOf(u))
                         /\ ~resolveHostname(HostnameOf(u)).ok
      [] c = "resolved" ->
            /\ Parses(u)
            /\ ~IsIPLiteralHost(HostnameOf(u))
            /\ LET a == resolveHostname(HostnameOf(u))
               IN  a.ok /\ \E j \in 1..Len(a.ips) : ClassifyAddress(a.ips[j])

\* The place in CheckOrder of the first check u fails, 0 when it fails none
FirstFailing(u) ==
    LET F == {k \in 1..Len(CheckOrder) : CheckFails(CheckOrder[k], u)}
    IN  IF F = {} THEN 0 ELSE CHOOSE k \in F : \A m \in F : k <= m

\* C14: validateSingleUrl applies its checks in the order length, parse,
\* protocol, hostname pattern, IP-literal classification, DNS resolution,
\* resolved-address classification: a URL is rejected exactly when it fails
\* some check, the reason is that of the first failing check in this order,
\* and no DNS lookup is made once one of the checks before it has failed.
C14_FirstFailingCheckDecides ==
    \A i \in LogIdx :
        log[i].ev = "validate" =>
            LET u == log[i].url
                f == FirstFailing(u)
            IN  /\ i < Len(log)
                /\ log[i + 1].ev = "lookup" => f \notin 1..5
                /\ \A j \in {i + 1, i + 2} :
                      (j <= Len(log) /\ log[j].ev = "verdict") =>
                          /\ log[j].ok = (f = 0)
                          /\ f # 0 => /\ pc = "done"
                                      /\ verdict = Reject(CheckReason(CheckOrder[f]))

----------------------------------------------------------------------------
(* Claims on the entry point validateImageUrl.                             *)

\* The text has "//" right after its authority: a scheme in any case, "//",
\* the authority, then "//"
DoubleSlashAfterAuthority(t) ==
    /\ Len(t) >= 5
    /\ t[1] \in {"http:", "https:", "HTTPS:", "ftp:"}
    /\ t[2] = "/"
    /\ t[3] = "/"
    /\ \E k \in 4..(Len(t) - 1) :
          /\ t[k] = "/"
          /\ t[k + 1] = "/"
          /\ \A m \in 4..(k - 1) : t[m] # "/"

\* The reasons the input may be rejected with before the chain validator,
\* read off the input itself: no string, empty after trim, a control
\* character anywhere in it, a backslash, %40, "//" after the authority
PreReasons(in) ==
    (IF in.type # "string"
     THEN {"Image URL is required", "Image URL must be a string"} ELSE {})
    \cup (IF in.type = "string" /\ trim(in.text) = <<>>
          THEN {"Image URL cannot be empty"} ELSE {})
    \cup (IF \E i \in 1..Len(in.text) : in.text[i] \in ControlToks
          THEN {"Image URL contains invalid characters"} ELSE {})
    \cup (IF \/ includes(in.text, <<"\\">>)
             \/ includes(in.text, <<"%40">>)
             \/ DoubleSlashAfterAuthority(trim(in.text))
          THEN {"Invalid URL format"} ELSE {})

\* C15: an input that is no string, is empty after trim, contains a control
\* character, a backslash, %40, or "//" right after the authority is
\* rejected with the reason of one of these defects, and the chain
\* validator is never entered for it: no hop, no lookup, no probe.
C15_BadInputRejectedBeforeChain ==
    (PreReasons(input) # {} /\ pc # "start") =>
        /\ pc = "done"
        /\ ~verdict.valid
        /\ verdict.error \in PreReasons(input)
        /\ log = <<>>

\* C16 as stated: every exception raised inside the chain validation, by
\* the URL parser, by the resolver or by the probe set-up, ends the call
\* with valid = false and 'Failed to validate image URL'.
C16_ExceptionsBecomeValidationError ==
    \A i \in LogIdx :
        LET u == log[i].url
            raised ==
                \/ log[i].ev = "throw"
                \/ log[i].ev = "lookup" /\ i < Len(log)
                      /\ ~resolveHostname(HostnameOf(u)).ok
                \/ log[i].ev = "validate" /\ UrlLength(u) <= MAX_URL_LENGTH
                      /\ ~Parses(u)
        IN  raised => /\ pc = "done"
                      /\ verdict = Reject("Failed to validate image URL")

\* C16 amended: no exception leaves validateImageUrl and none gives
\* valid = true: an exception of the probe set-up is caught at the entry
\* point and gives 'Failed to validate image URL'; an exception of the
\* resolver is caught inside validateSingleUrl and gives 'Failed to resolve
\* hostname'; an exception of the URL parser is caught there too and gives
\* 'Invalid URL format'.  The call ends at the exception.
C16_ExceptionsBecomeRejections ==
    \A i \in LogIdx :
        LET u == log[i].url
        IN  /\ log[i].ev = "throw" =>
                  /\ i = Len(log)
                  /\ pc = "done"
                  /\ verdict = Reject("Failed to validate image URL")
            /\ (log[i].ev = "lookup" /\ i < Len(log)
                    /\ ~resolveHostname(HostnameOf(u)).ok) =>
                  /\ i + 1 = Len(log)
                  /\ pc = "done"
                  /\ verdict = Reject("Failed to resolve hostname")
            /\ (log[i].ev = "validate" /\ UrlLength(u) <= MAX_URL_LENGTH
                    /\ ~Parses(u)) =>
                  /\ i + 1 = Len(log)
                  /\ pc = "done"
                  /\ verdict = Reject("Invalid URL format")

\* C16 witness: the probe set-up has thrown at a redirect target and the
\* call has ended with the generic reason.
C16_Witness ==
    /\ pc = "done"
    /\ redirectCount >= 1
    /\ log # <<>>
    /\ log[Len(log)].ev = "throw"
    /\ verdict = Reject("Failed to validate image URL")

\* C17: the probe fails open and only there.  A HEAD request that ends in a
\* socket error or a timeout is reported as 'no redirect' and the URL, which
\* has passed validateSingleUrl, is accepted; a probe is only ever sent for
\* a URL that has just passed validateSingleUrl, and no accepted call holds
\* a URL that failed it.
C17_ProbeFailsOpen ==
    /\ \A i \in LogIdx :
          /\ (log[i].ev = "response"
                 /\ HeadResponse(log[i].url).type \in {"error", "timeout"}) =>
                /\ ~log[i].ok
                /\ i = Len(log)
                /\ pc = "done"
                /\ verdict = Accept
          /\ log[i].ev = "probe" =>
                /\ i > 1
                /\ log[i - 1].ev = "verdict"
                /\ log[i - 1].ok
                /\ log[i - 1].url = log[i].url
    /\ Accepted => \A i \in LogIdx : log[i].ev = "verdict" => log[i].ok

\* C17 witness: the probe of a redirect target has timed out and the chain
\* is accepted.
C17_Witness ==
    /\ Accepted
    /\ redirectCount >= 1
    /\ net.ending.type = "timeout"
    /\ log[Len(log)].ev = "response"
    /\ log[Len(log)].url = Good(net.k)

\* The reasons of the taxonomy and the reason each message of the code
\* stands for ("" for a text that is none of the messages)
Taxonomy ==
    {"MissingUrl", "EmptyUrl", "InvalidCharacters", "InvalidFormat", "UrlTooLong",
     "ProtocolNotAllowed", "HostnameNotAllowed", "IpNotAllowed",
     "ResolutionFailure", "TooManyRedirects", "RedirectLoop", "ValidationError"}

ReasonOf(msg) ==
    CASE msg \in {"Image URL is required", "Image URL must be a string"} -> "MissingUrl"
      [] msg = "Image URL cannot be empty" -> "EmptyUrl"
      [] msg = "Image URL contains invalid characters" -> "InvalidCharacters"
      [] msg = "Invalid URL format" -> "InvalidFormat"
      [] msg = "URL exceeds maximum length" -> "UrlTooLong"
      [] msg = "Only HTTPS protocol is allowed for image URLs" -> "ProtocolNotAllowed"
      [] msg = "Hostname is not allowed" -> "HostnameNotAllowed"
      [] msg \in {"IP address is not allowed", "Resolved IP address is not allowed"}
            -> "IpNotAllowed"
      [] msg = "Failed to resolve hostname" -> "ResolutionFailure"
      [] msg = "Too many redirects" -> "TooManyRedirects"
      [] msg = "Redirect loop detected" -> "RedirectLoop"
      [] msg = "Failed to validate image URL" -> "ValidationError"
      [] OTHER -> ""

\* C18: every verdict validateImageUrl returns is well formed: valid = true
\* with no reason, or valid = false with one non-empty reason that stands
\* for a reason of the taxonomy.
C18_VerdictWellFormed ==
    pc = "done" =>
        IF verdict.valid THEN verdict.error = ""
        ELSE verdict.error # "" /\ ReasonOf(verdict.error) \in Taxonomy

\* C18 witness: a number has been given as the URL and the verdict is the
\* rejection that stands for MissingUrl.
C18_Witness ==
    /\ pc = "done"
    /\ input.type = "number"
    /\ ~verdict.valid
    /\ ReasonOf(verdict.error) = "MissingUrl"

\* The number of events of one kind in the log
CountOf(ev) == Cardinality({i \in LogIdx : log[i].ev = ev})

\* A hop has ended in a rejection: a failed verdict or a detected loop
RejectedAt(i) ==
    \/ log[i].ev = "verdict" /\ ~log[i].ok
    \/ log[i].ev = "hop" /\ ~log[i].ok
    \/ log[i].ev = "throw"

\* The place of pc within one hop, and the steps a call can still take at
\* most: 6 for each hop that may still be entered, less the steps of the
\* current hop that are over
PcOrder ==
    CASE pc = "hop" -> 1
      [] pc = "validate" -> 2
      [] pc = "dns" -> 3
      [] pc = "validated" -> 4
      [] pc = "probing" -> 5
      [] OTHER -> 0

StepsLeft ==
    IF pc = "done" THEN 0
    ELSE IF pc = "start" THEN 6 * (MAX_REDIRECTS + 1) + 1
    ELSE 6 * (MAX_REDIRECTS + 1 - redirectCount) - PcOrder

\* C20: every validateImageUrl call ends with a verdict when each DNS
\* lookup and each probe returns: every step of the call lowers the number
\* of steps it can still take, and a call that has not returned can take
\* a step.  Whatever the network redirects to, the call makes at most
\* MAX_REDIRECTS + 1 single-URL validations and at most MAX_REDIRECTS + 1
\* probes, and nothing follows the first rejection.
C20_TerminatesWithinLimit ==
    [][/\ StepsLeft' < StepsLeft
       /\ StepsLeft' >= 0
       /\ pc' \in {"hop", "validate", "dns", "validated", "probing", "done"}
       /\ pc' = "done" => verdict' # NoVerdict
       /\ CountOf("validate")' <= MAX_REDIRECTS + 1
       /\ CountOf("probe")' <= MAX_REDIRECTS + 1
       /\ \A i \in 1..Len(log') :
             RejectedAt(i)' => /\ i = Len(log')
                               /\ pc' = "done"
                               /\ ~verdict'.valid]_vars

\* C20 witness: behind the first URL lies a chain of redirects longer than
\* the limit; the call has ended after MAX_REDIRECTS + 1 validations.
C20_Witness ==
    /\ pc = "done"
    /\ net.k = MaxChain
    /\ net.ending.type = "redirect"
    /\ CountOf("validate") = MAX_REDIRECTS + 1

----------------------------------------------------------------------------
(* Claims on validateImageUrls.                                            *)

\* The verdict of validateImageUrl for the input in, called alone in the
\* same network
RECURSIVE RunAlone(_, _, _)
RunAlone(in, c, visited) ==
    IF c.pc = "done" THEN c.verdict
    ELSE RunAlone(in, CallStep(in, c, visited).call, CallStep(in, c, visited).visited)

SoloVerdict(in) == RunAlone(in, CallState("start", NoUrl, 0, NoVerdict), {})

\* C19: validateImageUrls returns one verdict per input URL, in input
\* order, and the verdict at index i is the verdict validateImageUrl
\* returns for URL i alone in the same network, whatever the interleaving
\* of the calls: a call that has returned has returned that verdict, and
\* the array Promise.all resolves with holds these verdicts in order.
C19_BatchVerdictsIndependent ==
    /\ \A i \in 1..Len(bCalls) :
          bCalls[i].pc = "done" => bCalls[i].verdict = SoloVerdict(bUrls[i])
    /\ bpc = "settled" =>
          /\ Len(bResult) = Len(bUrls)
          /\ \A i \in 1..Len(bUrls) : bResult[i] = SoloVerdict(bUrls[i])

\* C19 witness: a batch of a URL that does not resolve and a good URL
\* behind which lies a redirect has settled: the first is rejected, the
\* second accepted, each at its own place.
C19_Witness ==
    /\ bpc = "settled"
    /\ Len(bUrls) = 2
    /\ bUrls[1].url = Special("nxdomain")
    /\ bUrls[2].url = Good(1)
    /\ net.k = 2
    /\ bResult = <<Reject("Failed to resolve hostname"), Accept>>

\* C21: validateImageUrl is deterministic in its input and the network
\* answers: two calls with the same input, run one after the other or
\* interleaved in the same network, return the same verdict, and nothing a
\* call has left behind is seen by the other: each has its own visited set,
\* which holds only URLs of its own chain.
C21_SameInputSameVerdict ==
    \A i, j \in 1..Len(bCalls) :
        (i # j /\ bUrls[i].type = bUrls[j].type /\ bUrls[i].text = bUrls[j].text) =>
            /\ (bCalls[i].pc = "done" /\ bCalls[j].pc = "done") =>
                  bCalls[i].verdict = bCalls[j].verdict
            /\ bCalls[j].pc = "start" => bVisited[VisitedSlot(j)] = {}

\* C21 witness: the same URL, which redirects back to itself after one
\* hop, has been validated twice; both calls have found the loop.
C21_Witness ==
    /\ bpc = "settled"
    /\ Len(bUrls) = 2
    /\ bUrls[1] = bUrls[2]
    /\ bUrls[1].url = Good(1)
    /\ net = [k |-> 2, ending |-> Resp("redirect", Good(1))]
    /\ bResult = <<Reject("Redirect loop detected"), Reject("Redirect loop detected")>>

----------------------------------------------------------------------------
(* worker/processor.ts: the image references of a Markdown text.  A        *)
(* Markdown text is a sequence of tokens: the punctuation characters one   *)
(* by one ("!", "[", "]", "(", ")", "/", ".", " ", "LF"), and a scheme with *)
(* its colon ("https:", "data:") or a word ("alt", "host") as one token,   *)
(* as in the texts handed to validateImageUrl.                             *)

LineTerminators == {"LF", "CR"}

\* "." of a regular expression without the s flag: any character but a line
\* terminator
Dots(md, from, to) == \A i \in from..to : md[i] \notin LineTerminators

\* the positions where "](" stands, reachable from the "![" at s by .*?
CloseAlt(md, s) ==
    {e \in (s + 2)..(Len(md) - 1) :
        md[e] = "]" /\ md[e + 1] = "(" /\ Dots(md, s + 2, e - 1)}

\* the positions where ")" stands, reachable from the "](" at e by (.*?)
CloseUrl(md, e) ==
    {c \in (e + 2)..Len(md) : md[c] = ")" /\ Dots(md, e + 2, c - 1)}

Least(S) == CHOOSE x \in S : \A y \in S : x <= y

\* IMAGE_URL_PATTERN = /!\[.*?\]\((.*?)\)/g matches with "![" at s: both
\* groups are lazy, so the first "](" and then the first ")" are taken;
\* a later "](" cannot succeed where the first one fails
MatchAt(md, s) ==
    /\ s + 1 <= Len(md)
    /\ md[s] = "!" /\ md[s + 1] = "["
    /\ \E e \in CloseAlt(md, s) : CloseUrl(md, e) # {}

\* IMAGE_URL_PATTERN.exec(markdown) from lastIndex: the leftmost match, as
\* [from, to] of group 1 and the new lastIndex, or none
NoMatch == [found |-> FALSE, from |-> 0, to |-> 0, lastIndex |-> 0]

exec(md, lastIndex) ==
    LET starts == {s \in lastIndex..Len(md) : MatchAt(md, s)}
    IN  IF starts = {} THEN NoMatch
        ELSE LET s == Least(starts)
                 e == Least({x \in CloseAlt(md, s) : CloseUrl(md, x) # {}})
                 c == Least(CloseUrl(md, e))
             IN  [found |-> TRUE, from |-> e + 2, to |-> c - 1, lastIndex |-> c + 1]

\* the test of the loop body: data URIs, root-relative and "./" paths are
\* skipped, and so is the empty text
Skipped(url) ==
    \/ startsWith(url, <<"data:">>)
    \/ startsWith(url, <<"/">>)
    \/ startsWith(url, <<".", "/">>)
    \/ Len(url) = 0

\* the loop of extractImageURLs from lastIndex on, urls being collected
RECURSIVE extractFrom(_, _, _)
extractFrom(md, lastIndex, urls) ==
    LET m == exec(md, lastIndex)
    IN  IF ~m.found THEN urls
        ELSE LET url == trim(SubSeq(md, m.from, m.to))
             IN  extractFrom(md, m.lastIndex,
                             IF Skipped(url) THEN urls ELSE Append(urls, url))

\* extractImageURLs(markdown): lastIndex is reset first
extractImageURLs(text) == extractFrom(text, 1, <<>>)

\* The texts that stand between the parentheses of an image reference
RemoteUrl == <<"https:", "/", "/", "host", "/", "x">>
PlainHttpUrl == <<"http:", "/", "/", "host", "/", "x">>
PaddedUrl == <<" ">> \o RemoteUrl \o <<" ">>
DataUri == <<"data:", "x">>
UpperDataUri == <<"DATA:", "x">>
RootRelative == <<"/", "x">>
ProtocolRelative == <<"/", "/", "host", "/", "x">>
DotRelative == <<".", "/", "x">>
ParentRelative == <<".", ".", "/", "x">>
DirRelative == <<"dir", "/", "x">>
EmptyUrl == <<>>

UrlTexts ==
    {RemoteUrl, PlainHttpUrl, PaddedUrl, DataUri, UpperDataUri, RootRelative,
     ProtocolRelative, DotRelative, ParentRelative, DirRelative, EmptyUrl}

\* The pieces a Markdown text is written from: an image reference, a plain
\* link, an image reference broken by a line end, and running text
Piece(kind, url) == [kind |-> kind, url |-> url]

Pieces ==
    {Piece("image", u) : u \in UrlTexts}
    \cup {Piece("link", RemoteUrl), Piece("broken", RemoteUrl), Piece("text", <<>>)}

RenderPiece(p) ==
    CASE p.kind = "image"  -> <<"!", "[", "alt", "]", "(">> \o p.url \o <<")">>
      [] p.kind = "link"   -> <<"[", "alt", "]", "(">> \o p.url \o <<")">>
      [] p.kind = "broken" -> <<"!", "[", "alt", "]", "(">> \o p.url \o <<"LF", ")">>
      [] OTHER             -> <<"text", " ", "(", "x", ")", "LF">>

RECURSIVE Render(_)
Render(d) == IF d = <<>> THEN <<>> ELSE RenderPiece(Head(d)) \o Render(Tail(d))

MaxPieces == 2

\* extractImageURLs(job.markdown) is about to be called
ExtractInit ==
    /\ AddrIdle /\ ChainIdle /\ BatchIdle /\ QueueIdle /\ WorkerIdle /\ FrontIdle
    /\ doc \in Lists(Pieces, MaxPieces)
    /\ markdown = Render(doc)
    /\ imageUrls = <<>>
    /\ xpc = "ready"

CallExtractImageURLs ==
    /\ xpc = "ready"
    /\ imageUrls' = extractImageURLs(markdown)
    /\ xpc' = "done"
    /\ UNCHANGED <<doc, markdown, addrVars, chainVars, batchVars, queueVars, workerVars, frontVars>>

ExtractNext == CallExtractImageURLs

ExtractSpec == ExtractInit /\ [][ExtractNext]_vars

\* C23: the list extractImageURLs returns holds, in order, exactly the
\* references of the text that name a remote host: data URIs, relative
\* paths (./x, ../x, dir/x) and root-relative paths are left out, every
\* other reference is in it
HasScheme(url) == url # <<>> /\ url[1] \in {"https:", "http:", "data:", "DATA:"}

IsDataUri(url) == url # <<>> /\ url[1] \in {"data:", "DATA:"}

NamesRemoteHost(url) ==
    \/ url # <<>> /\ url[1] \in {"https:", "http:"}
    \/ startsWith(url, <<"/", "/">>)

IsRootRelative(url) == startsWith(url, <<"/">>) /\ ~startsWith(url, <<"/", "/">>)

IsRelativePath(url) == url # <<>> /\ ~HasScheme(url) /\ url[1] # "/"

IsImage(p) == p.kind = "image"

RECURSIVE References(_)
References(d) ==
    IF d = <<>> THEN <<>>
    ELSE (IF IsImage(Head(d)) THEN <<trim(Head(d).url)>> ELSE <<>>) \o References(Tail(d))

C23_CandidatesAreTheRemoteReferences ==
    xpc = "done" => imageUrls = SelectSeq(References(doc), NamesRemoteHost)

----------------------------------------------------------------------------
(* InMemoryQueue.  A job id is the position of the job in jobs (uuidv4     *)
(* gives every job an id of its own); queue holds the ids that wait.       *)

JobStatus == {"pending", "processing", "done", "error"}

Undefined == "undefined"

\* an error message: the fixed text, the URL it names and the detail
Message(kind, url, reason) == [kind |-> kind, url |-> url, reason |-> reason]

\* errorMessage when it is undefined
NoMessage == Message(Undefined, <<>>, "")

\* the job data the export route enqueues
JobData(text, css, format, accessToken) ==
    [markdown |-> text, css |-> css, format |-> format, accessToken |-> accessToken]

\* enqueue(data): the job record stored under the new id
NewJob(data) ==
    [data |-> data, status |-> "pending", result |-> Undefined, errorMessage |-> NoMessage]

enqueue(js, data) == Append(js, NewJob(data))

\* updateStatus(jobId, status, result, errorMessage) on a stored job; a
\* result or message that is undefined leaves the field as it is
updateStatus(js, jobId, status, result, errorMessage) ==
    [js EXCEPT ![jobId] =
        [@ EXCEPT !.status = status,
                  !.result = IF result # Undefined THEN result ELSE @,
                  !.errorMessage = IF errorMessage # NoMessage THEN errorMessage ELSE @]]

complete(js, jobId, result) == updateStatus(js, jobId, "done", result, NoMessage)

fail(js, jobId, error) == updateStatus(js, jobId, "error", Undefined, error)

\* the loop of getNext: ids are shifted off the queue until one names a job
\* that is pending; what is left of the queue begins with that id
RECURSIVE shiftToPending(_, _)
shiftToPending(js, q) ==
    IF q = <<>> THEN <<>>
    ELSE IF Head(q) \in DOMAIN js /\ js[Head(q)].status = "pending" THEN q
    ELSE shiftToPending(js, Tail(q))

\* getNext(): the job returned (0 for null) and the queue afterwards
getNext(js, q) ==
    LET rest == shiftToPending(js, q)
    IN  IF rest = <<>> THEN [job |-> 0, queue |-> <<>>]
        ELSE [job |-> Head(rest), queue |-> Tail(rest)]

\* what one getNext call returned, with the status the job had then
GetNextResult(job, js) ==
    [job |-> job, status |-> IF job = 0 THEN Undefined ELSE js[job].status]

MaxJobs == 2

PlainJob == JobData(Render(<<Piece("text", <<>>)>>), "", "pdf", FALSE)

DownloadUrl == "downloadUrl"
SlidesUrl == "slidesUrl"

\* QueueSpec: the queue under any sequence of calls of its methods
QueueInit ==
    /\ AddrIdle /\ ChainIdle /\ BatchIdle /\ WorkerIdle /\ ExtractIdle /\ FrontIdle
    /\ QueueIdle

QEnqueue ==
    /\ Len(jobs) < MaxJobs
    /\ jobs' = enqueue(jobs, PlainJob)
    /\ queue' = Append(queue, Len(jobs) + 1)
    /\ UNCHANGED <<returned, addrVars, chainVars, batchVars, workerVars, extractVars, frontVars>>

QGetNext ==
    /\ Len(returned) <= MaxJobs
    /\ LET r == getNext(jobs, queue)
       IN  /\ queue' = r.queue
           /\ returned' = Append(returned, GetNextResult(r.job, jobs))
    /\ UNCHANGED <<jobs, addrVars, chainVars, batchVars, workerVars, extractVars, frontVars>>

QUpdateStatus ==
    /\ \E jobId \in DOMAIN jobs, status \in JobStatus :
          jobs' = updateStatus(jobs, jobId, status, Undefined, NoMessage)
    /\ UNCHANGED <<queue, returned, addrVars, chainVars, batchVars, workerVars, extractVars, frontVars>>

QComplete ==
    /\ \E jobId \in DOMAIN jobs : jobs' = complete(jobs, jobId, DownloadUrl)
    /\ UNCHANGED <<queue, returned, addrVars, chainVars, batchVars, workerVars, extractVars, frontVars>>

QFail ==
    /\ \E jobId \in DOMAIN jobs : jobs' = fail(jobs, jobId, Message("failed", <<>>, ""))
    /\ UNCHANGED <<queue, returned, addrVars, chainVars, batchVars, workerVars, extractVars, frontVars>>

QueueNext == QEnqueue \/ QGetNext \/ QUpdateStatus \/ QComplete \/ QFail

QueueSpec == QueueInit /\ [][QueueNext]_vars

\* C26: getNext is FIFO over the pending jobs: the jobs are returned in the
\* order they were enqueued, none twice, each pending when it is returned,
\* and null is returned only when no job that was never returned is pending
GotJobs == SelectSeq(returned, LAMBDA r : r.job # 0)

NeverReturned(j) == \A i \in 1..Len(returned) : returned[i].job # j

GetNextReturnsNull ==
    /\ Len(returned') = Len(returned) + 1
    /\ returned'[Len(returned')].job = 0

\* the first three parts of C26: order, at most once, pending when returned
C26_ReturnedInOrderOnceWhilePending ==
    /\ \A i, k \in 1..Len(GotJobs) : i < k => GotJobs[i].job < GotJobs[k].job
    /\ \A i \in 1..Len(GotJobs) : GotJobs[i].status = "pending"

\* C26, last part: getNext returns null only when no pending job is left
C26_NullOnlyWhenNothingPending ==
    [][GetNextReturnsNull =>
          ~\E j \in DOMAIN jobs : jobs[j].status = "pending" /\ NeverReturned(j)]_vars

----------------------------------------------------------------------------
(* JobProcessor: the polling loop and process(job).  An await is the end   *)
(* of a step: the calls made up to it belong to the step that reaches it.  *)

MaxTimers == 2
TimerIds == 1..MaxTimers

\* `Image URL validation failed for "${url}": ${urlValidation.error}`
ImageMessage(url, error) == Message("Image URL validation failed for", url, error)
CssMessage == Message("CSS validation failed", <<>>, "errors")
TokenMessage == Message("Access token is required for slides export", <<>>, "")
ConversionMessage(error) ==
    Message(IF error = Undefined THEN "Conversion failed with unknown error" ELSE error, <<>>, "")
InternalMessage(error) == Message("Internal error", <<>>, error)

\* validateCSS(job.css).valid for the style sheets of the jobs below
validateCSS(css) == css # "bad"

\* what validateImageUrl may answer
ImageVerdicts == {Accept, Reject("Resolved IP address is not allowed")}

\* the jobs the export route enqueues
ImageJob ==
    JobData(Render(<<Piece("image", RemoteUrl), Piece("image", DotRelative),
                     Piece("image", PlainHttpUrl)>>), "ok", "pdf", FALSE)
BadCssJob == JobData(Render(<<Piece("image", RemoteUrl)>>), "bad", "pdf", FALSE)
NoTokenJob == JobData(Render(<<Piece("image", RemoteUrl)>>), "", "slides", FALSE)
SlidesJob == JobData(Render(<<Piece("text", <<>>)>>), "", "slides", TRUE)

JobInputs == {ImageJob, BadCssJob, NoTokenJob, SlidesJob}

\* one poll callback inside processNextJob: the timer it came from, the job
\* getNext gave it (0 for null), where it stands, the index of the URL
\* being validated
Activation(timer, job, at, i) == [timer |-> timer, job |-> job, pc |-> at, i |-> i]

JobEvent(ev, job, url) == [ev |-> ev, job |-> job, url |-> url]

FreeTimers == {t \in TimerIds : t \notin timers /\ \A a \in acts : a.timer # t}

\* poll(): when running, a new timer is armed and kept in pollTimer
poll(running, armed, free) ==
    IF running
    THEN LET t == Least(free) IN [pollTimer |-> t, timers |-> armed \cup {t}, set |-> TRUE]
    ELSE [pollTimer |-> 0, timers |-> armed, set |-> FALSE]

\* the route calls queue.enqueue(data)
Enqueue ==
    /\ Len(jobs) < MaxJobs
    /\ \E data \in JobInputs :
          /\ jobs' = enqueue(jobs, data)
          /\ queue' = Append(queue, Len(jobs) + 1)
    /\ UNCHANGED <<returned, workerVars, addrVars, chainVars, batchVars, extractVars, frontVars>>

\* start(): nothing when already running; else isRunning and poll()
ProcessorStart ==
    /\ ~isRunning
    /\ FreeTimers # {}
    /\ isRunning' = TRUE
    /\ LET r == poll(TRUE, timers, FreeTimers)
       IN  pollTimer' = r.pollTimer /\ timers' = r.timers
    /\ UNCHANGED <<isProcessing, acts, jlog, queueVars, addrVars, chainVars, batchVars, extractVars, frontVars>>

\* stop(): isRunning is cleared and the timer in pollTimer is cancelled
ProcessorStop ==
    /\ isRunning' = FALSE
    /\ timers' = timers \ {pollTimer}
    /\ pollTimer' = 0
    /\ UNCHANGED <<isProcessing, acts, jlog, queueVars, addrVars, chainVars, batchVars, extractVars, frontVars>>

\* the activation a moves on to pc at, URL index i
MoveTo(a, at, i) == (acts \ {a}) \cup {Activation(a.timer, a.job, at, i)}

\* await this.queue.fail(jobId, msg); return
FailJob(a, msg) ==
    /\ jobs' = fail(jobs, a.job, msg)
    /\ acts' = MoveTo(a, "finishing", 0)
    /\ jlog' = Append(jlog, JobEvent("fail", a.job, <<>>))

\* process, Steps 3 and 4: the access token test, then createTempFile
TokenStep(a, events) ==
    LET data == jobs[a.job].data
    IN  IF data.format = "slides" /\ ~data.accessToken
        THEN /\ jobs' = fail(jobs, a.job, TokenMessage)
             /\ acts' = MoveTo(a, "finishing", 0)
             /\ jlog' = jlog \o events \o <<JobEvent("fail", a.job, <<>>)>>
        ELSE /\ acts' = MoveTo(a, "createTempFile", 0)
             /\ jlog' = jlog \o events
             /\ UNCHANGED jobs

\* the callback of a poll timer: nothing when stopped; when no job is being
\* processed, processNextJob up to the await of getNext, which has taken
\* the next job off the queue; else poll() at once
TimerFires_NoProcessingTest ==
    \E t \in timers :
        IF ~isRunning
        THEN /\ timers' = timers \ {t}
             /\ UNCHANGED <<queueVars, isRunning, isProcessing, pollTimer, acts, jlog>>
        ELSE LET r == getNext(jobs, queue)
             IN  /\ Len(returned) < MaxJobs
                 /\ timers' = timers \ {t}
                 /\ isProcessing' = TRUE
                 /\ queue' = r.queue
                 /\ returned' = Append(returned, GetNextResult(r.job, jobs))
                 /\ acts' = acts \cup {Activation(t, r.job, "getNext", 0)}
                 /\ UNCHANGED <<jobs, isRunning, pollTimer, jlog>>

TimerFires ==
    \E t \in timers :
        IF ~isRunning
        THEN /\ timers' = timers \ {t}
             /\ UNCHANGED <<queueVars, isRunning, isProcessing, pollTimer, acts, jlog>>
        ELSE IF ~isProcessing
        THEN LET r == getNext(jobs, queue)
             IN  /\ Len(returned) < MaxJobs
                 /\ timers' = timers \ {t}
                 /\ isProcessing' = TRUE
                 /\ queue' = r.queue
                 /\ returned' = Append(returned, GetNextResult(r.job, jobs))
                 /\ acts' = acts \cup {Activation(t, r.job, "getNext", 0)}
                 /\ UNCHANGED <<jobs, isRunning, pollTimer, jlog>>
        ELSE LET r == poll(TRUE, timers \ {t}, FreeTimers \cup {t})
             IN  /\ timers' = r.timers
                 /\ pollTimer' = r.pollTimer
                 /\ UNCHANGED <<queueVars, isRunning, isProcessing, acts, jlog>>

TimerFire == TimerFires /\ UNCHANGED <<addrVars, chainVars, batchVars, extractVars, frontVars>>

\* getNext has answered: without a job processNextJob returns; with one,
\* process(job) runs up to the await of updateStatus(jobId, 'processing')
AfterGetNext ==
    /\ \E a \in acts :
          /\ a.pc = "getNext"
          /\ IF a.job = 0
             THEN /\ acts' = MoveTo(a, "finishing", 0)
                  /\ UNCHANGED <<jobs, jlog>>
             ELSE /\ jobs' = updateStatus(jobs, a.job, "processing", Undefined, NoMessage)
                  /\ acts' = MoveTo(a, "updateStatus", 0)
                  /\ jlog' = Append(jlog, JobEvent("processing", a.job, <<>>))
    /\ UNCHANGED <<queue, returned, isRunning, isProcessing, pollTimer, timers,
                   addrVars, chainVars, batchVars, extractVars, frontVars>>

\* process, Steps 1 and 2: the style sheet, then the first image URL is
\* handed to validateImageUrl; without image URLs Step 3 follows at once
AfterUpdateStatus ==
    /\ \E a \in acts :
          /\ a.pc = "updateStatus"
          /\ LET data == jobs[a.job].data
                 urls == extractImageURLs(data.markdown)
             IN  IF data.css # "" /\ ~validateCSS(data.css)
                 THEN FailJob(a, CssMessage)
                 ELSE IF Len(urls) > 0
                 THEN /\ acts' = MoveTo(a, "validateImageUrl", 1)
                      /\ jlog' = Append(jlog, JobEvent("validate", a.job, urls[1]))
                      /\ UNCHANGED jobs
                 ELSE TokenStep(a, <<>>)
    /\ UNCHANGED <<queue, returned, isRunning, isProcessing, pollTimer, timers,
                   addrVars, chainVars, batchVars, extractVars, frontVars>>

\* AfterValidateImageUrl with the verdict not looked at
AfterValidateImageUrl_VerdictIgnored ==
    /\ \E a \in acts, v \in ImageVerdicts :
          /\ a.pc = "validateImageUrl"
          /\ LET urls == extractImageURLs(jobs[a.job].data.markdown)
                 answer == JobEvent(IF v.valid THEN "valid" ELSE "invalid", a.job, urls[a.i])
             IN  IF a.i < Len(urls)
                 THEN /\ acts' = MoveTo(a, "validateImageUrl", a.i + 1)
                      /\ jlog' = jlog \o <<answer, JobEvent("validate", a.job, urls[a.i + 1])>>
                      /\ UNCHANGED jobs
                 ELSE TokenStep(a, <<answer>>)
    /\ UNCHANGED <<queue, returned, isRunning, isProcessing, pollTimer, timers,
                   addrVars, chainVars, batchVars, extractVars, frontVars>>

\* validateImageUrl has answered for the URL at index i: a rejection fails
\* the job with the message naming the URL; else the next URL is validated,
\* and after the last one Step 3 follows
AfterValidateImageUrl ==
    /\ \E a \in acts, v \in ImageVerdicts :
          /\ a.pc = "validateImageUrl"
          /\ LET urls == extractImageURLs(jobs[a.job].data.markdown)
                 answer == JobEvent(IF v.valid THEN "valid" ELSE "invalid", a.job, urls[a.i])
             IN  IF ~v.valid
                 THEN /\ jobs' = fail(jobs, a.job, ImageMessage(urls[a.i], v.error))
                      /\ acts' = MoveTo(a, "finishing", 0)
                      /\ jlog' = jlog \o <<answer, JobEvent("fail", a.job, <<>>)>>
                 ELSE IF a.i < Len(urls)
                 THEN /\ acts' = MoveTo(a, "validateImageUrl", a.i + 1)
                      /\ jlog' = jlog \o <<answer, JobEvent("validate", a.job, urls[a.i + 1])>>
                      /\ UNCHANGED jobs
                 ELSE TokenStep(a, <<answer>>)
    /\ UNCHANGED <<queue, returned, isRunning, isProcessing, pollTimer, timers,
                   addrVars, chainVars, batchVars, extractVars, frontVars>>

\* createTempFile has answered: convertMarkdown is called, or the exception
\* reaches the catch of process
AfterCreateTempFile ==
    /\ \E a \in acts, ok \in BOOLEAN :
          /\ a.pc = "createTempFile"
          /\ IF ok
             THEN /\ acts' = MoveTo(a, "convertMarkdown", 0)
                  /\ jlog' = Append(jlog, JobEvent("convert", a.job, <<>>))
                  /\ UNCHANGED jobs
             ELSE FailJob(a, InternalMessage("createTempFile"))
    /\ UNCHANGED <<queue, returned, isRunning, isProcessing, pollTimer, timers,
                   addrVars, chainVars, batchVars, extractVars, frontVars>>

ConversionResults == {"success", "error", Undefined}

\* convertMarkdown has answered: a failure fails the job; a slides job with
\* a token goes on to processSlidesExport, any other is completed
AfterConvertMarkdown ==
    /\ \E a \in acts, result \in ConversionResults :
          /\ a.pc = "convertMarkdown"
          /\ LET data == jobs[a.job].data
             IN  IF result # "success"
                 THEN FailJob(a, ConversionMessage(result))
                 ELSE IF data.format = "slides" /\ data.accessToken
                 THEN /\ acts' = MoveTo(a, "readFile", 0)
                      /\ UNCHANGED <<jobs, jlog>>
                 ELSE /\ jobs' = complete(jobs, a.job, DownloadUrl)
                      /\ acts' = MoveTo(a, "finishing", 0)
                      /\ jlog' = Append(jlog, JobEvent("complete", a.job, <<>>))
    /\ UNCHANGED <<queue, returned, isRunning, isProcessing, pollTimer, timers,
                   addrVars, chainVars, batchVars, extractVars, frontVars>>

\* processSlidesExport: readFile has answered, the upload to Drive begins
AfterReadFile ==
    /\ \E a \in acts, ok \in BOOLEAN :
          /\ a.pc = "readFile"
          /\ IF ok
             THEN /\ acts' = MoveTo(a, "upload", 0)
                  /\ jlog' = Append(jlog, JobEvent("upload", a.job, <<>>))
                  /\ UNCHANGED jobs
             ELSE FailJob(a, InternalMessage("readFile"))
    /\ UNCHANGED <<queue, returned, isRunning, isProcessing, pollTimer, timers,
                   addrVars, chainVars, batchVars, extractVars, frontVars>>

\* AfterUpload with an exception of the upload caught by nobody
AfterUpload_ThrowUncaught ==
    /\ \E a \in acts, ok \in BOOLEAN :
          /\ a.pc = "upload"
          /\ IF ok
             THEN /\ jobs' = complete(jobs, a.job, SlidesUrl)
                  /\ acts' = MoveTo(a, "finishing", 0)
                  /\ jlog' = Append(jlog, JobEvent("complete", a.job, <<>>))
             ELSE /\ acts' = MoveTo(a, "finishing", 0)
                  /\ UNCHANGED <<jobs, jlog>>
    /\ UNCHANGED <<queue, returned, isRunning, isProcessing, pollTimer, timers,
                   addrVars, chainVars, batchVars, extractVars, frontVars>>

\* uploadAndConvertToSlides has answered
AfterUpload ==
    /\ \E a \in acts, ok \in BOOLEAN :
          /\ a.pc = "upload"
          /\ IF ok
             THEN /\ jobs' = complete(jobs, a.job, SlidesUrl)
                  /\ acts' = MoveTo(a, "finishing", 0)
                  /\ jlog' = Append(jlog, JobEvent("complete", a.job, <<>>))
             ELSE FailJob(a, InternalMessage("upload"))
    /\ UNCHANGED <<queue, returned, isRunning, isProcessing, pollTimer, timers,
                   addrVars, chainVars, batchVars, extractVars, frontVars>>

\* the finally of processNextJob, and the poll() of the callback after it
AfterProcessNextJob ==
    /\ \E a \in acts :
          /\ a.pc = "finishing"
          /\ acts' = acts \ {a}
          /\ isProcessing' = FALSE
          /\ LET r == poll(isRunning, timers, FreeTimers \cup {a.timer})
             IN  /\ timers' = r.timers
                 /\ pollTimer' = IF r.set THEN r.pollTimer ELSE pollTimer
    /\ UNCHANGED <<queueVars, isRunning, jlog, addrVars, chainVars, batchVars, extractVars, frontVars>>

\* new JobProcessor(new InMemoryQueue(), tempManager)
JobInit ==
    /\ AddrIdle /\ ChainIdle /\ BatchIdle /\ ExtractIdle /\ FrontIdle
    /\ QueueIdle
    /\ WorkerIdle

JobNext ==
    \/ Enqueue
    \/ ProcessorStart
    \/ ProcessorStop
    \/ TimerFire
    \/ AfterGetNext
    \/ AfterUpdateStatus
    \/ AfterValidateImageUrl
    \/ AfterCreateTempFile
    \/ AfterConvertMarkdown
    \/ AfterReadFile
    \/ AfterUpload
    \/ AfterProcessNextJob

JobSpec == JobInit /\ [][JobNext]_vars

JobLogIdx == 1..Len(jlog)

\* C22: when validateImageUrl has rejected an image URL of a job, the job is
\* in status 'error' with the message 'Image URL validation failed for
\* "<url>": <reason>' naming that URL, and neither convertMarkdown nor the
\* Drive upload has been or is ever called for it
C22_RejectedImageFailsJobBeforeRender ==
    \A i \in JobLogIdx :
        jlog[i].ev = "invalid" =>
            LET j == jlog[i].job
            IN  /\ jobs[j].status = "error"
                /\ \E v \in ImageVerdicts :
                      ~v.valid /\ jobs[j].errorMessage = ImageMessage(jlog[i].url, v.error)
                /\ \A k \in JobLogIdx :
                      jlog[k].job = j => jlog[k].ev \notin {"convert", "upload"}
                /\ \A a \in acts : a.job = j => a.pc = "finishing"

\* the second image URL of a job was rejected after the first was accepted,
\* its processNextJob has returned, and another job was rendered
C22_Witness ==
    /\ Len(jobs) = 2 /\ acts = {}
    /\ jobs[1].data = ImageJob /\ jobs[1].status = "error"
    /\ jobs[1].errorMessage = ImageMessage(PlainHttpUrl, "Resolved IP address is not allowed")
    /\ \E i \in JobLogIdx : jlog[i] = JobEvent("valid", 1, RemoteUrl)
    /\ \E i \in JobLogIdx : jlog[i] = JobEvent("convert", 2, <<>>)

\* C27: at most one processNextJob runs at a time, and getNext is called
\* only while the processor is running (not between stop() and start())
C27_OneJobAtATime ==
    [][/\ Cardinality(acts') <= 1
       /\ (acts' # {}) => isProcessing'
       /\ Len(returned') > Len(returned) => isRunning]_vars

\* the processor was restarted while a job was in flight: a poll timer is
\* armed while processNextJob is working on a job
C27_Witness ==
    /\ isRunning /\ timers # {}
    /\ \E a \in acts : a.job # 0 /\ a.pc = "convertMarkdown"

\* the steps process(job) has left before processNextJob returns
JobStepsLeft(a) ==
    CASE a.pc = "getNext"          -> 11
      [] a.pc = "updateStatus"     -> 10
      [] a.pc = "validateImageUrl" -> 10 - a.i
      [] a.pc = "createTempFile"   -> 4
      [] a.pc = "convertMarkdown"  -> 3
      [] a.pc = "readFile"         -> 2
      [] a.pc = "upload"           -> 1
      [] OTHER                     -> 0

Ends(j) == Cardinality({i \in JobLogIdx : jlog[i].job = j /\ jlog[i].ev \in {"complete", "fail"}})

Terminal(j) == jobs[j].status \in {"done", "error"}

\* C28: a dequeued job goes pending -> processing -> (done | error):
\* 'processing' is set first, then exactly one of complete and fail is
\* called; every step of process brings its return nearer, the job is
\* terminal when processNextJob returns, and a terminal job stays as it is
C28_DequeuedJobReachesTerminalOnce ==
    [][/\ \A j \in DOMAIN jobs :
             jobs'[j].status # jobs[j].status =>
                 <<jobs[j].status, jobs'[j].status>> \in
                     {<<"pending", "processing">>, <<"processing", "done">>,
                      <<"processing", "error">>}
       /\ \A j \in DOMAIN jobs' :
             /\ Ends(j)' <= 1
             /\ Terminal(j)' <=> Ends(j)' = 1
             /\ jobs'[j].status = "processing" =>
                   \E a \in acts' : a.job = j /\ a.pc \notin {"getNext", "finishing"}
       /\ \A a \in acts' : (a.pc = "finishing" /\ a.job # 0) => Terminal(a.job)'
       /\ \A a \in acts, b \in acts' :
             (a.timer = b.timer /\ a # b) =>
                 a.job = b.job /\ JobStepsLeft(b) < JobStepsLeft(a)
       /\ \A a \in acts : (\A b \in acts' : b.timer # a.timer) => a.pc = "finishing"]_vars

\* one job was completed, the next one failed on an exception of the upload
C28_Witness ==
    /\ Len(jobs) = 2 /\ acts = {}
    /\ jobs[1].status = "done" /\ jobs[1].result = DownloadUrl
    /\ jobs[2].status = "error" /\ jobs[2].errorMessage = InternalMessage("upload")

----------------------------------------------------------------------------
(* lib/auth/tokenManager.ts: TokenManager.  The stored tokens are a record *)
(* of the access token ("login": from the OAuth login, "refreshed": from   *)
(* the token endpoint), whether a refresh token is stored, and whether     *)
(* isTokenExpired holds for them at the present time.                      *)

MaxRequests == 3

StoredTokens(accessToken, refreshToken) ==
    [accessToken |-> accessToken, refreshToken |-> refreshToken, expired |-> FALSE]

\* what the token endpoint answers: 200, 400 or 401, another status, or
\* fetch rejects
RefreshOutcomes == {"ok", "invalid", "failed", "threw"}

\* new TokenManager(storage)
TokenInit ==
    /\ BackIdle /\ SaveIdle /\ EditorIdle
    /\ TokenIdle

\* setTokens(oauthTokens) after the OAuth login
Login ==
    /\ \E refreshToken \in BOOLEAN : storage' = StoredTokens("login", refreshToken)
    /\ authState' = "authenticated"
    /\ loggedOut' = FALSE
    /\ UNCHANGED <<refreshPromise, requests, issued, backVars, saveVars, edVars>>

\* clearTokens(): the storage is emptied, refreshPromise is dropped, the
\* callbacks hear false
clearTokens ==
    /\ storage' = NoTokens
    /\ refreshPromise' = 0
    /\ authState' = "unauthenticated"
    /\ loggedOut' = TRUE

\* clearTokens() at logout
Logout ==
    /\ clearTokens
    /\ UNCHANGED <<requests, issued, backVars, saveVars, edVars>>

\* the time reaches expiresAt - refreshThresholdMs
TokenExpires ==
    /\ storage # NoTokens /\ ~storage.expired
    /\ storage' = [storage EXCEPT !.expired = TRUE]
    /\ UNCHANGED <<refreshPromise, requests, issued, authState, loggedOut,
                   backVars, saveVars, edVars>>

\* refreshAccessToken() up to its await: the promise of a refresh under way
\* is returned; without a refresh token the tokens are cleared; else
\* performRefresh sends the request and its promise is kept
refreshAccessToken ==
    IF refreshPromise # 0
    THEN UNCHANGED <<storage, refreshPromise, requests, issued, authState, loggedOut>>
    ELSE IF storage = NoTokens \/ ~storage.refreshToken
    THEN clearTokens /\ UNCHANGED <<requests, issued>>
    ELSE /\ issued < MaxRequests
         /\ issued' = issued + 1
         /\ requests' = requests \cup {issued + 1}
         /\ refreshPromise' = issued + 1
         /\ UNCHANGED <<storage, authState, loggedOut>>

CallRefreshAccessToken ==
    /\ refreshAccessToken
    /\ UNCHANGED <<backVars, saveVars, edVars>>

\* getAccessToken(): with expired tokens in the storage it refreshes
CallGetAccessToken ==
    /\ storage # NoTokens /\ storage.expired
    /\ refreshAccessToken
    /\ UNCHANGED <<backVars, saveVars, edVars>>

\* the request r is answered: performRefresh stores the new tokens, or
\* clears the tokens on 400 and 401, or returns null; then the finally of
\* the refreshAccessToken call that sent it sets refreshPromise to null
RefreshReturns ==
    /\ \E r \in requests, outcome \in RefreshOutcomes :
          /\ requests' = requests \ {r}
          /\ refreshPromise' = 0
          /\ CASE outcome = "ok" ->
                    /\ storage' = StoredTokens("refreshed", TRUE)
                    /\ authState' = "authenticated"
                    /\ UNCHANGED loggedOut
               [] outcome = "invalid" ->
                    /\ storage' = NoTokens
                    /\ authState' = "unauthenticated"
                    /\ loggedOut' = TRUE
               [] OTHER -> UNCHANGED <<storage, authState, loggedOut>>
    /\ UNCHANGED <<issued, backVars, saveVars, edVars>>

TokenNext ==
    \/ Login
    \/ Logout
    \/ TokenExpires
    \/ CallRefreshAccessToken
    \/ CallGetAccessToken
    \/ RefreshReturns

TokenSpec == TokenInit /\ [][TokenNext]_vars

\* C24: refreshAccessToken is single-flight: at most one refresh request is
\* in flight at any time
C24_AtMostOneRefreshInFlight == Cardinality(requests) <= 1

\* C29: after clearTokens() the storage holds no tokens and the user is not
\* reported as authenticated until the next login stores tokens
C29_NoTokensAfterLogout ==
    loggedOut => storage = NoTokens /\ authState # "authenticated"

----------------------------------------------------------------------------
(* hooks/useAutoSave.ts: the hook while it is mounted.  Time is counted in *)
(* ticks; a timer runs its callback when its time has come, never before.  *)

DebounceMs == 2
MaxTime == 4
MaxSaves == 1

Contents == {"a", "b"}

Timer(due, text) == [due |-> due, content |-> text]

\* setTimeout(..., debounceMs) at time t: when the callback is due
Due_AtOnce(t) == t
Due(t) == t + DebounceMs

SaveCall(text, by) == [content |-> text, at |-> now, by |-> by, call |-> lastCall]

\* the mount effect has run: loadMarkdown() gave null or a saved text
SaveInit ==
    /\ BackIdle /\ TokenIdle /\ EditorIdle
    /\ lastSavedContent \in {"", "a"}
    /\ content = lastSavedContent
    /\ saveStatus = "idle"
    /\ debounceTimer = NoTimer
    /\ pending = {}
    /\ now = 0
    /\ saves = <<>>
    /\ lastCall = NoCall

\* performSave(contentToSave): nothing is written when the text is the one
\* saved last; else saveMarkdown is called, and it may throw
performSave(contentToSave, by) ==
    IF contentToSave = lastSavedContent
    THEN /\ saveStatus' = "saved"
         /\ UNCHANGED <<lastSavedContent, saves>>
    ELSE /\ saves' = Append(saves, SaveCall(contentToSave, by))
         /\ \E ok \in BOOLEAN :
               IF ok
               THEN lastSavedContent' = contentToSave /\ saveStatus' = "saved"
               ELSE saveStatus' = "error" /\ UNCHANGED lastSavedContent

\* setContent(newContent) with the pending timer left armed
SetContent_TimerNotCleared ==
    /\ \E newContent \in Contents :
          LET t == Timer(Due(now), newContent)
          IN  /\ content' = newContent
              /\ saveStatus' = "idle"
              /\ pending' = pending \cup {t}
              /\ debounceTimer' = t
              /\ lastCall' = [content |-> newContent, at |-> now, called |-> TRUE,
                               cancelled |-> debounceTimer \in pending]
    /\ UNCHANGED <<lastSavedContent, now, saves, backVars, tokVars, edVars>>

\* setContent(newContent): the timer in the ref is cleared, a new one armed
SetContent ==
    /\ \E newContent \in Contents :
          LET t == Timer(Due(now), newContent)
          IN  /\ content' = newContent
              /\ saveStatus' = "idle"
              /\ pending' = (pending \ {debounceTimer}) \cup {t}
              /\ debounceTimer' = t
              /\ lastCall' = [content |-> newContent, at |-> now, called |-> TRUE,
                               cancelled |-> debounceTimer \in pending]
    /\ UNCHANGED <<lastSavedContent, now, saves, backVars, tokVars, edVars>>

\* the callback of a timer that is due: performSave(newContent)
DebounceFires ==
    /\ \E t \in pending :
          /\ t.due <= now
          /\ pending' = pending \ {t}
          /\ performSave(t.content, "timer")
    /\ UNCHANGED <<content, debounceTimer, now, lastCall, backVars, tokVars, edVars>>

\* save(): the timer in the ref is cleared and the content saved at once
ManualSave ==
    /\ Len(saves) < MaxSaves
    /\ pending' = pending \ {debounceTimer}
    /\ debounceTimer' = NoTimer
    /\ performSave(content, "manual")
    /\ UNCHANGED <<content, now, lastCall, backVars, tokVars, edVars>>

\* time passes while no timer is due
Tick ==
    /\ now < MaxTime
    /\ \A t \in pending : t.due > now
    /\ now' = now + 1
    /\ UNCHANGED <<content, saveStatus, lastSavedContent, debounceTimer, pending, saves,
                   lastCall, backVars, tokVars, edVars>>

SaveNext == SetContent \/ DebounceFires \/ ManualSave \/ Tick

AutoSaveSpec == SaveInit /\ [][SaveNext]_vars

\* the timer of the last setContent call has run its callback
DebounceFired ==
    /\ lastCall.called
    /\ debounceTimer = Timer(lastCall.at + DebounceMs, lastCall.content)
    /\ debounceTimer \notin pending

\* the debounced saveMarkdown calls made since the last setContent call
SavesOfLastCall ==
    {i \in 1..Len(saves) : saves[i].by = "timer" /\ saves[i].call = lastCall}

\* every debounced save writes the content of the last setContent call
\* before it, debounceMs or more after that call
OnlyLastContentAfterDelay ==
    \A i \in 1..Len(saves) :
        saves[i].by = "timer" =>
            /\ saves[i].content = saves[i].call.content
            /\ saves[i].at >= saves[i].call.at + DebounceMs

\* C25 as stated: after a burst of setContent calls saveMarkdown is called
\* debounceMs after the last call, exactly once and with its content, and
\* no earlier content of the burst is saved
C25_LastContentSavedExactlyOnce ==
    /\ OnlyLastContentAfterDelay
    /\ DebounceFired => Cardinality(SavesOfLastCall) = 1

\* C25, amended: the same, but saveMarkdown is not called at all when the
\* content of the last call is the content that was saved last
C25_LastContentSavedOnceUnlessUnchanged ==
    /\ OnlyLastContentAfterDelay
    /\ DebounceFired =>
          IF Cardinality(SavesOfLastCall) = 0
          THEN lastSavedContent = lastCall.content /\ saveStatus = "saved"
          ELSE Cardinality(SavesOfLastCall) = 1

\* a second setContent call cancelled the pending save of the first, and
\* its own content was saved once, debounceMs after it
C25_Witness ==
    /\ DebounceFired
    /\ lastCall = [content |-> "b", at |-> 1, called |-> TRUE, cancelled |-> TRUE]
    /\ saves = <<[content |-> "b", at |-> 1 + DebounceMs, by |-> "timer", call |-> lastCall]>>
    /\ lastSavedContent = "b"

----------------------------------------------------------------------------
(* The editor store and its history store.  createHistoryStore keeps the   *)
(* history in the closure variables past and future; the object it returns *)
(* has two more arrays, its properties past and future.  A history entry   *)
(* is modelled by its markdown.                                            *)

MAX_HISTORY_SIZE == 50
MaxEntries == 2

Markdowns == {"", "a", "b"}

\* Date.now() - lastPushTime >= HISTORY_DEBOUNCE_DELAY
DelayElapsed == elapsed

push(array, entry) == Append(array, entry)
pop(array) == IF array = <<>> THEN array ELSE SubSeq(array, 1, Len(array) - 1)
slice(array) ==
    IF Len(array) > MAX_HISTORY_SIZE
    THEN SubSeq(array, Len(array) - MAX_HISTORY_SIZE + 1, Len(array))
    ELSE array

canUndo == Len(past) > 0
canRedo == Len(future) > 0

Op(op, found) == [op |-> op, before |-> stateMarkdown, found |-> found]

EditorInit ==
    /\ BackIdle /\ TokenIdle /\ SaveIdle
    /\ EditorIdle

\* historyStore.pushHistory(markdown)
pushHistory(entry) ==
    IF ~DelayElapsed
    THEN UNCHANGED <<past, future, elapsed>>
    ELSE /\ elapsed' = FALSE
         /\ IF Len(past) > 0 /\ past[Len(past)] = entry
            THEN UNCHANGED <<past, future>>
            ELSE /\ past' = slice(push(past, entry))
                 /\ future' = <<>>

\* setMarkdown(md)
SetMarkdown ==
    /\ Len(past) < MaxEntries
    /\ \E md \in Markdowns :
          /\ IF stateMarkdown # md /\ stateMarkdown # ""
             THEN pushHistory(stateMarkdown)
             ELSE UNCHANGED <<past, future, elapsed>>
          /\ stateMarkdown' = md
          /\ lastOp' = Op("setMarkdown", stateMarkdown # md /\ stateMarkdown # "")
    /\ UNCHANGED <<propPast, propFuture, backVars, tokVars, saveVars>>

\* HISTORY_DEBOUNCE_DELAY goes by without a pushHistory call
DelayPasses ==
    /\ ~elapsed
    /\ elapsed' = TRUE
    /\ UNCHANGED <<stateMarkdown, past, future, propPast, propFuture, lastOp,
                   backVars, tokVars, saveVars>>

\* undo(): the current text goes to the property future, the entry comes
\* from the closure past
Undo ==
    /\ Len(propFuture) < MaxEntries
    /\ LET pushed == IF stateMarkdown # "" THEN push(propFuture, stateMarkdown)
                     ELSE propFuture
       IN  IF Len(past) > 0
           THEN /\ past' = pop(past)
                /\ stateMarkdown' = past[Len(past)]
                /\ propFuture' = pushed
           ELSE /\ propFuture' = pop(pushed)
                /\ UNCHANGED <<past, stateMarkdown>>
    /\ lastOp' = Op("undo", Len(past) > 0)
    /\ UNCHANGED <<future, propPast, elapsed, backVars, tokVars, saveVars>>

\* redo(): the current text goes to the property past, the entry comes from
\* the closure future
Redo ==
    /\ LET pushed == IF stateMarkdown # "" THEN push(propPast, stateMarkdown)
                     ELSE propPast
       IN  IF Len(future) > 0
           THEN /\ future' = pop(future)
                /\ past' = push(past, future[Len(future)])
                /\ stateMarkdown' = future[Len(future)]
                /\ propPast' = pushed
           ELSE /\ propPast' = pop(pushed)
                /\ UNCHANGED <<future, past, stateMarkdown>>
    /\ lastOp' = Op("redo", Len(future) > 0)
    /\ UNCHANGED <<propFuture, elapsed, backVars, tokVars, saveVars>>

\* clearHistory()
ClearHistory ==
    /\ past' = <<>>
    /\ future' = <<>>
    /\ lastOp' = Op("clearHistory", FALSE)
    /\ UNCHANGED <<stateMarkdown, propPast, propFuture, elapsed,
                   backVars, tokVars, saveVars>>

EditorNext ==
    \/ SetMarkdown
    \/ DelayPasses
    \/ Undo
    \/ Redo
    \/ ClearHistory

EditorSpec == EditorInit /\ [][EditorNext]_vars

\* the step is a call of undo() that found an entry in the history
UndoStep == lastOp'.op = "undo" /\ lastOp'.found /\ lastOp' # lastOp

\* the step is a call of redo() right after an undo() that found an entry
RedoAfterUndoStep == lastOp.op = "undo" /\ lastOp.found /\ lastOp'.op = "redo"

\* the step is a call of setMarkdown with another text right after an undo()
SetAfterUndoStep ==
    /\ lastOp.op = "undo" /\ lastOp.found
    /\ lastOp'.op = "setMarkdown" /\ stateMarkdown' # stateMarkdown

\* C30 (lemma): undo() with a recorded change gives back the text recorded
\* last, and canRedo() is false after every setMarkdown
C30_UndoRestoresRecorded ==
    [][/\ UndoStep => stateMarkdown' = past[Len(past)] /\ past' = pop(past)
       /\ SetAfterUndoStep => ~canRedo']_vars

\* C30: undo and redo are inverse: after a recorded setMarkdown change undo()
\* restores the previous content, canRedo() is then true, a following redo()
\* restores exactly the content that was current before that undo, and a new
\* setMarkdown after an undo clears the redo stack
C30_UndoRedoInverse ==
    [][/\ UndoStep => stateMarkdown' = past[Len(past)] /\ canRedo'
       /\ RedoAfterUndoStep => stateMarkdown' = lastOp.before
       /\ SetAfterUndoStep => ~canRedo']_vars

\* an undo() has restored "a" from "b", and a redo() after it has left "a"
C30_RedoAfterUndoDoesNothing ==
    /\ lastOp = [op |-> "redo", before |-> "a", found |-> FALSE]
    /\ stateMarkdown = "a"
    /\ propFuture = <<"b">>
    /\ future = <<>>
    /\ past = <<>>

====
